---- MODULE Spec2Model ----
(***************************************************************************)
(* ccundo: the turn store (TurnManager), the Turn record and the batch     *)
(* undo driver (TurnUndoManager), modelled from src/unnamed/part_000       *)
(* (Turn.js), src/unnamed/part_001 (Operation.js, TurnManager.js) and      *)
(* src/src/core/TurnUndoManager.js.                                        *)
(*                                                                         *)
(* Instants are integers (milliseconds).  Text is a sequence of string     *)
(* tokens, joined by single spaces; the empty text is << >>.               *)
(***************************************************************************)
EXTENDS Integers, Sequences, FiniteSets, TLC

VARIABLES
    turns,            \* TurnManager.turns: turn id -> Turn
    operationToTurn,  \* TurnManager.operationToTurn: operation id -> turn id
    persisted,        \* the turns.json document: turn id -> serialized turn
    nextTurnId,       \* the next fresh turn id (ids are never reused)
    now,              \* the wall clock at the latest new Date()
    pc,               \* "idle", or "undo" while an undoTurn batch is running
    batch,            \* the running undoTurn batch
    delegateCalls,    \* the operations passed to UndoManager.undo by the batch
    delegateOutcomes, \* what UndoManager.undo did on each of them, in order
    last,             \* the last public call: its arguments and its result
    before,           \* the store and the document when the last public call began
    calls             \* the number of public calls made so far

vars == <<turns, operationToTurn, persisted, nextTurnId, now, pc, batch,
          delegateCalls, delegateOutcomes, last, before, calls>>

----------------------------------------------------------------------------
(* Bounds *)

MaxOps == 4
MaxTurns == 5
MaxClock == 1
MaxIds == 2
MaxCalls == 3

----------------------------------------------------------------------------
(* The operations of the session (Operation.js) *)

Null == -1

OpIds == 1..MaxOps

OperationType ==
    {"file_create", "file_edit", "file_delete", "file_rename",
     "directory_create", "directory_delete", "bash_command"}

\* Operation.timestamp, in milliseconds: 0 s, 60 s, 120 s, 400 s.
Timestamp(o) ==
    CASE o = 1 -> 0
      [] o = 2 -> 60000
      [] o = 3 -> 120000
      [] OTHER -> 400000

\* Operation.type
Type(o) ==
    CASE o = 1 -> "file_create"
      [] o = 2 -> "file_edit"
      [] o = 3 -> "bash_command"
      [] o = 4 -> "directory_create"
      [] OTHER -> "file_edit"

Range(s) == {s[i] : i \in 1..Len(s)}

RECURSIVE SeqAsc(_)
SeqAsc(S) ==
    IF S = {} THEN << >>
    ELSE LET m == CHOOSE x \in S : \A y \in S : x <= y
         IN  <<m>> \o SeqAsc(S \ {m})

RECURSIVE Reverse(_)
Reverse(s) == IF s = << >> THEN << >> ELSE Reverse(Tail(s)) \o <<Head(s)>>

\* The session's operations, earliest first
Session == SeqAsc(OpIds)

\* The operation lists a caller passes (allOperations): no operation, the
\* first two, all but the first two, the whole session, and the whole
\* session latest first.
OpLists ==
    {<< >>, SubSeq(Session, 1, 2), SubSeq(Session, 3, MaxOps), Session,
     Reverse(Session)}

\* The id lists a caller passes: up to MaxIds ids of the first MaxIds
\* operations, repeats allowed.
IdLists == UNION {[1..n -> 1..MaxIds] : n \in 0..MaxIds}

\* Gaps passed to groupOperationsIntoTurns (60000 is its default) and the
\* minutes passed to autoGroupOperations (5 is its default).
GapsMs == {60000}
GapMinutes == {5}

Descriptions == {<< >>, <<"manual">>}

----------------------------------------------------------------------------
(* Array helpers *)

\* Array.prototype.includes
Includes(s, x) == \E i \in 1..Len(s) : s[i] = x

\* Array.prototype.filter(id => id !== x)
RECURSIVE Without(_, _)
Without(s, x) ==
    IF s = << >> THEN << >>
    ELSE IF Head(s) = x THEN Without(Tail(s), x)
    ELSE <<Head(s)>> \o Without(Tail(s), x)

\* Array.prototype.filter(op => ids.includes(op.id))
RECURSIVE FilterIn(_, _)
FilterIn(s, ids) ==
    IF s = << >> THEN << >>
    ELSE IF Includes(ids, Head(s)) THEN <<Head(s)>> \o FilterIn(Tail(s), ids)
    ELSE FilterIn(Tail(s), ids)

\* Insertion of x into a list sorted ascending by timestamp, after every
\* element that does not compare greater (Array.prototype.sort is stable).
RECURSIVE InsertAsc(_, _)
InsertAsc(s, x) ==
    IF s = << >> THEN <<x>>
    ELSE IF Timestamp(Head(s)) - Timestamp(x) > 0 THEN <<x>> \o s
    ELSE <<Head(s)>> \o InsertAsc(Tail(s), x)

RECURSIVE InsertDesc(_, _)
InsertDesc(s, x) ==
    IF s = << >> THEN <<x>>
    ELSE IF Timestamp(x) - Timestamp(Head(s)) > 0 THEN <<x>> \o s
    ELSE <<Head(s)>> \o InsertDesc(Tail(s), x)

RECURSIVE SortAscFrom(_, _)
SortAscFrom(acc, s) ==
    IF s = << >> THEN acc ELSE SortAscFrom(InsertAsc(acc, Head(s)), Tail(s))

RECURSIVE SortDescFrom(_, _)
SortDescFrom(acc, s) ==
    IF s = << >> THEN acc ELSE SortDescFrom(InsertDesc(acc, Head(s)), Tail(s))

\* sort((a, b) => new Date(a.timestamp) - new Date(b.timestamp))
SortAscending(s) == SortAscFrom(<< >>, s)

\* (mutant) the comparator with its operands swapped
SortDescendingSwapped(s) == SortAscFrom(<< >>, s)

\* sort((a, b) => new Date(b.timestamp) - new Date(a.timestamp))
SortDescending(s) == SortDescFrom(<< >>, s)

----------------------------------------------------------------------------
(* Turn (Turn.js) *)

\* new Turn(description) with id `id`, constructed at instant t (the two
\* new Date() of the constructor read the same millisecond)
NewTurn(id, description, t) ==
    [id |-> id, timestamp |-> t, description |-> description,
     operations |-> << >>, startTime |-> t, endTime |-> Null,
     completed |-> FALSE]

\* (mutant) the id is pushed without the includes test
AddOperationUnchecked(turn, operationId) ==
    [turn EXCEPT !.operations = Append(@, operationId)]

\* Turn.addOperation
AddOperation(turn, operationId) ==
    IF ~Includes(turn.operations, operationId)
    THEN [turn EXCEPT !.operations = Append(@, operationId)]
    ELSE turn

\* (mutant) the flag is set and endTime is left alone
CompleteFlagOnly(turn, t) == [turn EXCEPT !.completed = TRUE]

\* Turn.complete at instant t
Complete(turn, t) == [turn EXCEPT !.endTime = t, !.completed = TRUE]

\* Turn.getDuration
GetDuration(turn) ==
    IF turn.endTime = Null THEN Null ELSE turn.endTime - turn.startTime

\* Date.prototype.toISOString
ToISOString(t) == <<"iso", t>>

\* The time value of an Invalid Date
InvalidDate == -2

\* A property that a JSON object does not have reads as undefined
Undefined == <<"undefined", Null>>

\* json[name], or `absent` when the object has no such property
Field(json, name, absent) ==
    IF name \in DOMAIN json THEN json[name] ELSE absent

\* new Date(value): an ISO string parses to its instant, null is the epoch,
\* undefined gives an Invalid Date
ParseDate(value) ==
    CASE value[1] = "iso" -> value[2]
      [] value[1] = "null" -> 0
      [] OTHER -> InvalidDate

\* (mutant) endTime is written as null whatever it is
ToJSONWithoutEndTime(turn) ==
    [id |-> turn.id,
     timestamp |-> ToISOString(turn.timestamp),
     description |-> turn.description,
     operations |-> turn.operations,
     startTime |-> ToISOString(turn.startTime),
     endTime |-> <<"null", Null>>,
     completed |-> turn.completed]

\* Turn.toJSON
ToJSON(turn) ==
    [id |-> turn.id,
     timestamp |-> ToISOString(turn.timestamp),
     description |-> turn.description,
     operations |-> turn.operations,
     startTime |-> ToISOString(turn.startTime),
     endTime |-> IF turn.endTime # Null THEN ToISOString(turn.endTime)
                 ELSE <<"null", Null>>,
     completed |-> turn.completed]

\* Turn.fromJSON: a missing description, operations, endTime or completed
\* takes the default; a missing id stays undefined (Null)
FromJSON(json) ==
    [id |-> Field(json, "id", Null),
     timestamp |-> ParseDate(Field(json, "timestamp", Undefined)),
     description |-> Field(json, "description", << >>),
     operations |-> Field(json, "operations", << >>),
     startTime |-> ParseDate(Field(json, "startTime", Undefined)),
     endTime |-> IF Field(json, "endTime", Undefined)[1] = "iso"
                 THEN ParseDate(json.endTime)
                 ELSE Null,
     completed |-> Field(json, "completed", FALSE)]

\* The types of the operations of a list, in order
TypesOf(ops) == [i \in 1..Len(ops) |-> Type(ops[i])]

\* t.startsWith('file_'), over the types of OperationType
StartsWithFile(type) ==
    type \in {"file_create", "file_edit", "file_delete", "file_rename"}

\* operationTypes.filter(t => t.startsWith('file_')).length
CountFileOps(types) ==
    Cardinality({i \in 1..Len(types) : StartsWithFile(types[i])})

\* operationTypes.filter(t => t === 'bash_command').length
CountBashOps(types) ==
    Cardinality({i \in 1..Len(types) : types[i] = "bash_command"})

\* (mutant) the single-type templates always take the plural form
DescribeTypesAlwaysPlural(types) ==
    IF Len(types) = 0 THEN <<"Empty", "turn">>
    ELSE IF Cardinality(Range(types)) = 1 THEN
        LET type == types[1]
            n == ToString(Len(types))
        IN  CASE type = "file_create" -> <<"Created", n, "files">>
              [] type = "file_edit" -> <<"Edited", n, "files">>
              [] type = "file_delete" -> <<"Deleted", n, "files">>
              [] type = "bash_command" -> <<"Ran", n, "commands">>
              [] OTHER -> <<"Performed", n, type, "operations">>
    ELSE
        LET fileOps == CountFileOps(types)
            bashOps == CountBashOps(types)
            filePart == IF fileOps > 0
                        THEN <<<<ToString(fileOps),
                                 IF fileOps = 1 THEN "file op" ELSE "file ops">>>>
                        ELSE << >>
            bashPart == IF bashOps > 0
                        THEN <<<<ToString(bashOps),
                                 IF bashOps = 1 THEN "command" ELSE "commands">>>>
                        ELSE << >>
            parts == filePart \o bashPart
        IN  CASE Len(parts) = 0 -> << >>
              [] Len(parts) = 1 -> parts[1]
              [] OTHER -> parts[1] \o <<"+">> \o parts[2]

\* Turn.generateDescription, for a list of operation types
DescribeTypes(types) ==
    IF Len(types) = 0 THEN <<"Empty", "turn">>
    ELSE IF Cardinality(Range(types)) = 1 THEN
        LET type == types[1]
            count == Len(types)
            n == ToString(count)
        IN  CASE type = "file_create" ->
                   IF count = 1 THEN <<"Created", "1", "file">>
                   ELSE <<"Created", n, "files">>
              [] type = "file_edit" ->
                   IF count = 1 THEN <<"Edited", "1", "file">>
                   ELSE <<"Edited", n, "files">>
              [] type = "file_delete" ->
                   IF count = 1 THEN <<"Deleted", "1", "file">>
                   ELSE <<"Deleted", n, "files">>
              [] type = "bash_command" ->
                   IF count = 1 THEN <<"Ran", "1", "command">>
                   ELSE <<"Ran", n, "commands">>
              [] OTHER -> <<"Performed", n, type, "operations">>
    ELSE
        LET fileOps == CountFileOps(types)
            bashOps == CountBashOps(types)
            filePart == IF fileOps > 0
                        THEN <<<<ToString(fileOps),
                                 IF fileOps = 1 THEN "file op" ELSE "file ops">>>>
                        ELSE << >>
            bashPart == IF bashOps > 0
                        THEN <<<<ToString(bashOps),
                                 IF bashOps = 1 THEN "command" ELSE "commands">>>>
                        ELSE << >>
            parts == filePart \o bashPart
        IN  CASE Len(parts) = 0 -> << >>
              [] Len(parts) = 1 -> parts[1]
              [] OTHER -> parts[1] \o <<"+">> \o parts[2]

\* Turn.generateDescription(operations)
GenerateDescription(ops) == DescribeTypes(TypesOf(ops))

----------------------------------------------------------------------------
(* TurnManager (TurnManager.js), as functions of the store                 *)
(* st = [turns |-> ..., operationToTurn |-> ...]                           *)

Store(t, m) == [turns |-> t, operationToTurn |-> m]

\* Map.prototype.set
MapSet(m, k, v) == [x \in DOMAIN m \cup {k} |-> IF x = k THEN v ELSE m[x]]

\* Map.prototype.delete
MapDelete(m, k) == [x \in DOMAIN m \ {k} |-> m[x]]

\* TurnManager.saveTurns: the document written from the store.  The turns
\* array is in Map insertion order, which is the order of the turn ids.
SavedDocument(t) == [id \in DOMAIN t |-> ToJSON(t[id])]

\* TurnManager.createTurn: the store with a new turn `id` made at instant t
CreateTurnIn(st, id, description, t) ==
    [st EXCEPT !.turns = MapSet(@, id, NewTurn(id, description, t))]

\* TurnManager.addOperationToTurn
AddOperationToTurnIn(st, operationId, turnId) ==
    IF turnId \in DOMAIN st.turns
    THEN [st EXCEPT !.turns[turnId] = AddOperation(@, operationId),
                    !.operationToTurn = MapSet(@, operationId, turnId)]
    ELSE st

\* TurnManager.getTurnForOperation (Null for undefined)
GetTurnForOperation(st, operationId) ==
    IF operationId \in DOMAIN st.operationToTurn
    THEN st.operationToTurn[operationId]
    ELSE Null

\* (mutant) no filter: every operation is taken as ungrouped
UngroupedOpsUnfiltered(st, operations) == operations

\* operations.filter(op => !this.getTurnForOperation(op.id))
RECURSIVE UngroupedOps(_, _)
UngroupedOps(st, operations) ==
    IF operations = << >> THEN << >>
    ELSE IF GetTurnForOperation(st, Head(operations)) = Null
    THEN <<Head(operations)>> \o UngroupedOps(st, Tail(operations))
    ELSE UngroupedOps(st, Tail(operations))

\* (mutant) the turn is kept when its last member goes
RemoveOperationInKeepingTurn(st, opId) ==
    IF opId \in DOMAIN st.operationToTurn
    THEN LET turnId == st.operationToTurn[opId]
             detached ==
                 IF turnId \in DOMAIN st.turns
                 THEN [st.turns EXCEPT ![turnId].operations = Without(@, opId)]
                 ELSE st.turns
         IN  Store(detached, MapDelete(st.operationToTurn, opId))
    ELSE st

\* The body of the loop of removeOperationsFromTurns, for one id
RemoveOperationIn(st, opId) ==
    IF opId \in DOMAIN st.operationToTurn
    THEN LET turnId == st.operationToTurn[opId]
             detached ==
                 IF turnId \in DOMAIN st.turns
                 THEN LET ops == Without(st.turns[turnId].operations, opId)
                      IN  IF Len(ops) = 0
                          THEN MapDelete(st.turns, turnId)
                          ELSE [st.turns EXCEPT ![turnId].operations = ops]
                 ELSE st.turns
         IN  Store(detached, MapDelete(st.operationToTurn, opId))
    ELSE st

\* TurnManager.removeOperationsFromTurns, up to its saveTurns
RECURSIVE RemoveOperationsIn(_, _)
RemoveOperationsIn(st, operationIds) ==
    IF operationIds = << >> THEN st
    ELSE RemoveOperationsIn(RemoveOperationIn(st, Head(operationIds)),
                            Tail(operationIds))

\* The wall clock after an interval in which it may have advanced
Clock(t, advanced) == IF advanced /\ t < MaxClock THEN t + 1 ELSE t

\* (mutant) the turn is left as it is
CompleteInSkipped(st, turnId, t) == st

\* currentTurn.complete() on a turn of the store
CompleteIn(st, turnId, t) == [st EXCEPT !.turns[turnId] = Complete(@, t)]

\* (mutant) the boundary test with >= for >
NeedNewTurnAtGap(currentTurn, lastOpTime, opTime, timeGapMs) ==
    \/ currentTurn = Null
    \/ (lastOpTime # Null /\ (opTime - lastOpTime) >= timeGapMs)

\* needNewTurn = !currentTurn || (lastOpTime && (opTime - lastOpTime) > timeGapMs)
NeedNewTurn(currentTurn, lastOpTime, opTime, timeGapMs) ==
    \/ currentTurn = Null
    \/ (lastOpTime # Null /\ (opTime - lastOpTime) > timeGapMs)

\* One iteration of the loop of groupOperationsIntoTurns over sortedOps.
\* g = [st, created, currentTurn, lastOpTime, now, nextId]
GroupIteration(g, operation, timeGapMs, advanced) ==
    LET t == Clock(g.now, advanced)
        opTime == Timestamp(operation)
        needNewTurn == NeedNewTurn(g.currentTurn, g.lastOpTime, opTime, timeGapMs)
        st1 == IF needNewTurn /\ g.currentTurn # Null
               THEN CompleteIn(g.st, g.currentTurn, t)
               ELSE g.st
        st2 == IF needNewTurn THEN CreateTurnIn(st1, g.nextId, << >>, t) ELSE st1
        cur == IF needNewTurn THEN g.nextId ELSE g.currentTurn
    IN  [st |-> AddOperationToTurnIn(st2, operation, cur),
         created |-> IF needNewTurn THEN Append(g.created, cur) ELSE g.created,
         currentTurn |-> cur,
         lastOpTime |-> opTime,
         now |-> t,
         nextId |-> IF needNewTurn THEN g.nextId + 1 ELSE g.nextId]

\* The loop: iteration i runs after the clock advanced iff i \in adv
RECURSIVE GroupLoop(_, _, _, _, _)
GroupLoop(g, sortedOps, i, timeGapMs, adv) ==
    IF i > Len(sortedOps) THEN g
    ELSE GroupLoop(GroupIteration(g, sortedOps[i], timeGapMs, i \in adv),
                   sortedOps, i + 1, timeGapMs, adv)

\* for (const turn of turns) turn.description = Turn.generateDescription(...)
RECURSIVE DescribeCreated(_, _, _)
DescribeCreated(st, created, ungroupedOps) ==
    IF created = << >> THEN st
    ELSE LET id == Head(created)
             turnOps == FilterIn(ungroupedOps, st.turns[id].operations)
         IN  DescribeCreated(
                 [st EXCEPT !.turns[id].description = GenerateDescription(turnOps)],
                 Tail(created), ungroupedOps)

\* TurnManager.groupOperationsIntoTurns(operations, timeGapMs) called on the
\* store st at instant t0 with next fresh turn id id0.  adv is the set of
\* loop iterations (and Len + 1, the code after the loop) before which the
\* clock advanced.  The result is the store, the returned turns (their ids),
\* the clock, the next fresh id and whether saveTurns ran.
GroupOperationsIntoTurns(st, operations, timeGapMs, t0, id0, adv) ==
    LET unchanged == [st |-> st, ret |-> << >>, now |-> t0, nextId |-> id0,
                      saved |-> FALSE]
        ungroupedOps == UngroupedOps(st, operations)
        sortedOps == SortAscending(ungroupedOps)
        g == GroupLoop([st |-> st, created |-> << >>, currentTurn |-> Null,
                        lastOpTime |-> Null, now |-> t0, nextId |-> id0],
                       sortedOps, 1, timeGapMs, adv)
        t == Clock(g.now, (Len(sortedOps) + 1) \in adv)
        completed == IF g.currentTurn # Null
                     THEN CompleteIn(g.st, g.currentTurn, t)
                     ELSE g.st
    IN  IF Len(operations) = 0 THEN unchanged
        ELSE IF Len(ungroupedOps) = 0 THEN unchanged
        ELSE [st |-> DescribeCreated(completed, g.created, ungroupedOps),
              ret |-> g.created, now |-> t, nextId |-> g.nextId,
              saved |-> TRUE]

----------------------------------------------------------------------------
(* TurnUndoManager.undoTurn (TurnUndoManager.js) *)

\* What UndoManager.undo(operation) may do: return { success: true },
\* return { success: false }, or throw
DelegateOutcomes == {"success", "failure", "throw"}

\* (mutant) the entry built by the catch block says success
ResultOfThrowSucceeds(outcome) ==
    CASE outcome = "failure" -> [success |-> FALSE]
      [] OTHER -> [success |-> TRUE]

\* The entry pushed to results for an outcome: the delegate's result, or the
\* entry { success: false, message } built by the catch block.  The message
\* of an entry is not modelled.
ResultOf(outcome) ==
    CASE outcome = "success" -> [success |-> TRUE]
      [] outcome = "failure" -> [success |-> FALSE]
      [] OTHER -> [success |-> FALSE]

\* (mutant) every operation of the list is resolved, member or not
TurnOperationsUnfiltered(turn, allOperations) == SortDescending(allOperations)

\* allOperations.filter(op => turn.operations.includes(op.id)).sort(latest first)
TurnOperations(turn, allOperations) ==
    SortDescending(FilterIn(allOperations, turn.operations))

\* (mutant) the loop also ends at the first entry that is not a success
BatchDoneAtFailure(b) ==
    \/ Len(b.results) >= Len(b.ops)
    \/ \E i \in 1..Len(b.results) : ~b.results[i].success

\* for (const operation of turnOperations): the loop is over
BatchDone(b) == Len(b.results) >= Len(b.ops)

\* turnOperations.filter((_, index) => results[index]?.success).map(op => op.id)
RECURSIVE SuccessfulOpIds(_, _, _)
SuccessfulOpIds(ops, results, index) ==
    IF index > Len(ops) THEN << >>
    ELSE IF index <= Len(results) /\ results[index].success
    THEN <<ops[index]>> \o SuccessfulOpIds(ops, results, index + 1)
    ELSE SuccessfulOpIds(ops, results, index + 1)

CountSuccess(results) == Cardinality({i \in 1..Len(results) : results[i].success})

CountFail(results) == Cardinality({i \in 1..Len(results) : ~results[i].success})

----------------------------------------------------------------------------
(* The state machine *)

NoBatch == [turnId |-> Null, allOps |-> << >>, ops |-> << >>, results |-> << >>]

\* The record of a public call, before its arguments and result are filled in
Call(op) ==
    [op |-> op, turnId |-> Null, ops |-> << >>, ids |-> << >>, gap |-> Null,
     types |-> << >>,
     ret |-> << >>, code |-> "ok", success |-> TRUE, resolved |-> << >>,
     results |-> << >>, successCount |-> 0, failCount |-> 0, again |-> FALSE]

\* The turn ids a caller passes: every id handed out so far, and one unknown id
TurnIds == 1..(IF nextTurnId <= MaxTurns THEN nextTurnId ELSE MaxTurns)

\* The clock reads of one call (numbered from 1) before which the clock
\* advanced since the read before: none, or one of them
ClockAdvances(n) == {{}} \cup {{i} : i \in 1..n}

Init ==
    /\ turns = << >>
    /\ operationToTurn = << >>
    /\ persisted = << >>
    /\ nextTurnId = 1
    /\ now = 0
    /\ pc = "idle"
    /\ batch = NoBatch
    /\ delegateCalls = << >>
    /\ delegateOutcomes = << >>
    /\ last = Call("init")
    /\ before = [turns |-> << >>, operationToTurn |-> << >>, persisted |-> << >>]
    /\ calls = 0

\* What a public call starts from
Snapshot ==
    [turns |-> turns, operationToTurn |-> operationToTurn, persisted |-> persisted]

\* A public call may start
Idle == pc = "idle" /\ calls < MaxCalls

\* TurnManager.createTurn(description)
CreateTurn(description) ==
    /\ Idle
    /\ nextTurnId <= MaxTurns
    /\ \E advanced \in BOOLEAN :
         LET t == Clock(now, advanced)
             st == CreateTurnIn(Store(turns, operationToTurn), nextTurnId,
                                description, t)
         IN  /\ turns' = st.turns
             /\ operationToTurn' = st.operationToTurn
             /\ now' = t
    /\ nextTurnId' = nextTurnId + 1
    /\ last' = [Call("createTurn") EXCEPT !.ret = <<nextTurnId>>]
    /\ calls' = calls + 1
    /\ before' = Snapshot
    /\ UNCHANGED <<persisted, pc, batch, delegateCalls,
                   delegateOutcomes>>

\* TurnManager.addOperationToTurn(operationId, turnId)
AddOperationToTurn(operationId, turnId) ==
    /\ Idle
    /\ LET st == AddOperationToTurnIn(Store(turns, operationToTurn),
                                      operationId, turnId)
       IN  /\ turns' = st.turns
           /\ operationToTurn' = st.operationToTurn
    /\ last' = [Call("addOperationToTurn") EXCEPT !.turnId = turnId,
                                                  !.ids = <<operationId>>]
    /\ calls' = calls + 1
    /\ before' = Snapshot
    /\ UNCHANGED <<persisted, nextTurnId, now, pc, batch, delegateCalls,
                   delegateOutcomes>>

\* TurnManager.completeTurn(turnId)
CompleteTurn(turnId) ==
    /\ Idle
    /\ IF turnId \in DOMAIN turns
       THEN \E advanced \in BOOLEAN :
              /\ now' = Clock(now, advanced)
              /\ turns' = [turns EXCEPT ![turnId] = Complete(@, now')]
              /\ persisted' = SavedDocument(turns')
       ELSE UNCHANGED <<turns, persisted, now>>
    /\ last' = [Call("completeTurn") EXCEPT !.turnId = turnId]
    /\ calls' = calls + 1
    /\ before' = Snapshot
    /\ UNCHANGED <<operationToTurn, nextTurnId, pc, batch, delegateCalls,
                   delegateOutcomes>>

GroupingCalls == {"groupOperationsIntoTurns", "autoGroupOperations"}

\* A call of groupOperationsIntoTurns, under the name `op`.  last.again tells
\* whether the call before it was a grouping of the same list with the same gap.
Grouping(op, operations, timeGapMs) ==
    /\ Idle
    /\ \E adv \in ClockAdvances(
                Len(UngroupedOps(Store(turns, operationToTurn), operations)) + 1) :
         LET r == GroupOperationsIntoTurns(Store(turns, operationToTurn),
                      operations, timeGapMs, now, nextTurnId, adv)
         IN  /\ r.nextId <= MaxTurns + 1
             /\ turns' = r.st.turns
             /\ operationToTurn' = r.st.operationToTurn
             /\ persisted' = IF r.saved THEN SavedDocument(r.st.turns)
                             ELSE persisted
             /\ nextTurnId' = r.nextId
             /\ now' = r.now
             /\ last' = [Call(op) EXCEPT
                            !.ops = operations, !.gap = timeGapMs, !.ret = r.ret,
                            !.again = /\ last.op \in GroupingCalls
                                      /\ last.ops = operations
                                      /\ last.gap = timeGapMs]
    /\ calls' = calls + 1
    /\ before' = Snapshot
    /\ UNCHANGED <<pc, batch, delegateCalls,
                   delegateOutcomes>>

\* TurnManager.groupOperationsIntoTurns(operations, timeGapMs)
GroupOperations(operations, timeGapMs) ==
    Grouping("groupOperationsIntoTurns", operations, timeGapMs)

\* TurnUndoManager.autoGroupOperations(operations, timeGapMinutes)
AutoGroupOperations(operations, timeGapMinutes) ==
    Grouping("autoGroupOperations", operations, timeGapMinutes * 60 * 1000)

\* TurnManager.removeOperationsFromTurns(operationIds)
RemoveOperationsFromTurns(operationIds) ==
    /\ Idle
    /\ LET st == RemoveOperationsIn(Store(turns, operationToTurn), operationIds)
       IN  /\ turns' = st.turns
           /\ operationToTurn' = st.operationToTurn
           /\ persisted' = SavedDocument(st.turns)
    /\ last' = [Call("removeOperationsFromTurns") EXCEPT !.ids = operationIds]
    /\ calls' = calls + 1
    /\ before' = Snapshot
    /\ UNCHANGED <<nextTurnId, now, pc, batch, delegateCalls,
                   delegateOutcomes>>

\* for (const opId of operationIds) this.turnManager.addOperationToTurn(opId, turn.id)
RECURSIVE AddOperationsIn(_, _, _)
AddOperationsIn(st, operationIds, turnId) ==
    IF operationIds = << >> THEN st
    ELSE AddOperationsIn(AddOperationToTurnIn(st, Head(operationIds), turnId),
                         Tail(operationIds), turnId)

\* (mutant) the new turn is saved without turn.complete()
CreateTurnWithOperationsInOpen(st, id, operationIds, description, allOperations, t0, t1) ==
    LET st1 == CreateTurnIn(st, id, description, t0)
    IN  AddOperationsIn(st1, operationIds, id)

\* TurnUndoManager.createTurnWithOperations, up to its saveTurns: the store
\* with the new turn `id`, created at instant t0 and completed at instant t1
CreateTurnWithOperationsIn(st, id, operationIds, description, allOperations, t0, t1) ==
    LET st1 == CreateTurnIn(st, id, description, t0)
        st2 == AddOperationsIn(st1, operationIds, id)
        st3 == IF description = << >>
               THEN [st2 EXCEPT !.turns[id].description =
                        GenerateDescription(FilterIn(allOperations, operationIds))]
               ELSE st2
    IN  CompleteIn(st3, id, t1)

\* TurnUndoManager.createTurnWithOperations(operationIds, description, allOperations)
CreateTurnWithOperations(operationIds, description, allOperations) ==
    /\ Idle
    /\ nextTurnId <= MaxTurns
    /\ \E adv \in ClockAdvances(2) :
         LET t0 == Clock(now, 1 \in adv)
             t1 == Clock(t0, 2 \in adv)
             st == CreateTurnWithOperationsIn(Store(turns, operationToTurn),
                       nextTurnId, operationIds, description, allOperations,
                       t0, t1)
         IN  /\ turns' = st.turns
             /\ operationToTurn' = st.operationToTurn
             /\ persisted' = SavedDocument(st.turns)
             /\ now' = t1
    /\ nextTurnId' = nextTurnId + 1
    /\ last' = [Call("createTurnWithOperations") EXCEPT
                    !.ids = operationIds, !.ret = <<nextTurnId>>]
    /\ calls' = calls + 1
    /\ before' = Snapshot
    /\ UNCHANGED <<pc, batch, delegateCalls,
                   delegateOutcomes>>

\* TurnUndoManager.undoTurn(turnId, allOperations), up to the batch loop
UndoTurn(turnId, allOperations) ==
    /\ Idle
    /\ calls' = calls + 1
    /\ before' = Snapshot
    /\ delegateCalls' = << >>
    /\ delegateOutcomes' = << >>
    /\ IF turnId \notin DOMAIN turns
       THEN /\ last' = [Call("undoTurn") EXCEPT
                           !.turnId = turnId, !.ops = allOperations,
                           !.code = "NotFound", !.success = FALSE]
            /\ UNCHANGED <<pc, batch>>
       ELSE LET turnOperations == TurnOperations(turns[turnId], allOperations)
            IN  IF Len(turnOperations) = 0
                THEN /\ last' = [Call("undoTurn") EXCEPT
                                    !.turnId = turnId, !.ops = allOperations,
                                    !.code = "Empty", !.success = FALSE]
                     /\ UNCHANGED <<pc, batch>>
                ELSE /\ pc' = "undo"
                     /\ batch' = [turnId |-> turnId, allOps |-> allOperations,
                                  ops |-> turnOperations, results |-> << >>]
                     /\ last' = [Call("undoTurn") EXCEPT
                                    !.turnId = turnId, !.ops = allOperations,
                                    !.code = "running"]
    /\ UNCHANGED <<turns, operationToTurn, persisted, nextTurnId, now>>

\* One iteration of the batch loop: await this.undoManager.undo(operation)
UndoOperation(outcome) ==
    /\ pc = "undo"
    /\ ~BatchDone(batch)
    /\ LET operation == batch.ops[Len(batch.results) + 1]
       IN  /\ delegateCalls' = Append(delegateCalls, operation)
           /\ delegateOutcomes' = Append(delegateOutcomes, outcome)
           /\ batch' = [batch EXCEPT !.results = Append(@, ResultOf(outcome))]
    /\ UNCHANGED <<turns, operationToTurn, persisted, nextTurnId, now, pc,
                   last, before, calls>>

\* The code of undoTurn after the loop: detach the successes, save, return
UndoTurnReturn ==
    /\ pc = "undo"
    /\ BatchDone(batch)
    /\ LET successCount == CountSuccess(batch.results)
           failCount == CountFail(batch.results)
           st == IF successCount > 0
                 THEN RemoveOperationsIn(Store(turns, operationToTurn),
                          SuccessfulOpIds(batch.ops, batch.results, 1))
                 ELSE Store(turns, operationToTurn)
       IN  /\ turns' = st.turns
           /\ operationToTurn' = st.operationToTurn
           /\ persisted' = IF successCount > 0 THEN SavedDocument(st.turns)
                           ELSE persisted
           /\ last' = [Call(last.op) EXCEPT
                          !.turnId = batch.turnId, !.ops = batch.allOps,
                          !.ret = last.ret,
                          !.success = successCount > 0,
                          !.resolved = batch.ops, !.results = batch.results,
                          !.successCount = successCount,
                          !.failCount = failCount]
    /\ pc' = "idle"
    /\ batch' = NoBatch
    /\ UNCHANGED <<nextTurnId, now, delegateCalls, delegateOutcomes, before,
                   calls>>

Next ==
    \/ \E description \in Descriptions : CreateTurn(description)
    \/ \E o \in OpIds, t \in TurnIds : AddOperationToTurn(o, t)
    \/ \E t \in TurnIds : CompleteTurn(t)
    \/ \E ops \in OpLists, gap \in GapsMs : GroupOperations(ops, gap)
    \/ \E ops \in OpLists, minutes \in GapMinutes : AutoGroupOperations(ops, minutes)
    \/ \E ids \in IdLists : RemoveOperationsFromTurns(ids)
    \/ \E ids \in IdLists, description \in Descriptions :
           CreateTurnWithOperations(ids, description, Session)
    \/ \E t \in TurnIds, ops \in OpLists : UndoTurn(t, ops)
    \/ \E outcome \in DelegateOutcomes : UndoOperation(outcome)
    \/ UndoTurnReturn

Spec == Init /\ [][Next]_vars

\* The code of undoTurn after the loop when fs.writeFile fails in saveTurns:
\* removeOperationsFromTurns has detached the successes in memory, the
\* document is not written, and the rejection leaves undoTurn (the await is
\* outside the try block of the loop)
UndoTurnSaveFails ==
    /\ pc = "undo"
    /\ BatchDone(batch)
    /\ CountSuccess(batch.results) > 0
    /\ LET st == RemoveOperationsIn(Store(turns, operationToTurn),
                     SuccessfulOpIds(batch.ops, batch.results, 1))
       IN  /\ turns' = st.turns
           /\ operationToTurn' = st.operationToTurn
    /\ last' = [Call("undoTurn") EXCEPT
                   !.turnId = batch.turnId, !.ops = batch.allOps,
                   !.code = "thrown", !.success = FALSE,
                   !.resolved = batch.ops]
    /\ pc' = "idle"
    /\ batch' = NoBatch
    /\ UNCHANGED <<persisted, nextTurnId, now, delegateCalls, delegateOutcomes,
                   before, calls>>

NextFaults == Next \/ UndoTurnSaveFails

\* The program on a disk whose writes may fail during undoTurn
SpecFaults == Init /\ [][NextFaults]_vars

----------------------------------------------------------------------------
(* Properties *)

IsSet(s) == \A i, j \in 1..Len(s) : s[i] = s[j] => i = j

\* undoTurn has returned from a batch (not with NotFound or Empty)
UndoTurnReturned == last.op = "undoTurn" /\ last.code = "ok"

\* The members of the turn of the last undoTurn, as the call found them, that
\* occur in the operation list it was given
ResolvedMembers ==
    {o \in Range(last.ops) :
        o \in Range(before.turns[last.turnId].operations)}

\* C1: when undoTurn returns from a batch, every resolved operation (every
\* member of the turn that occurs in allOperations) has been passed to the undo
\* delegate exactly once and has one entry in results, whatever the outcomes
\* of the operations before it were.
C1_EveryOperationAttempted ==
    UndoTurnReturned =>
        /\ Range(delegateCalls) = ResolvedMembers
        /\ IsSet(delegateCalls)
        /\ Len(last.results) = Len(delegateCalls)

\* A batch that returned after a failure followed by another operation
C1_Witness ==
    /\ UndoTurnReturned
    /\ \E i, j \in 1..Len(last.results) :
          i < j /\ ~last.results[i].success /\ last.results[j].success
    /\ Len(delegateCalls) = Len(last.results)

\* C2: after an undoTurn batch, the operations detached from turn tracking
\* are exactly those whose own undo succeeded: a succeeded operation is in no
\* member list and not in the reverse index, a failed operation is still in
\* the member list of the turn and mapped to it.
C2_DetachedExactlySucceeded ==
    UndoTurnReturned =>
        \A i \in 1..Len(last.resolved) :
            LET o == last.resolved[i]
            IN  IF last.results[i].success
                THEN /\ o \notin DOMAIN operationToTurn
                     /\ \A t \in DOMAIN turns : o \notin Range(turns[t].operations)
                ELSE /\ last.turnId \in DOMAIN turns
                     /\ o \in Range(turns[last.turnId].operations)
                     /\ o \in DOMAIN operationToTurn
                     /\ operationToTurn[o] = last.turnId

\* C3: the undo delegate is called on the operations of a batch in
\* non-increasing timestamp order.
C3_NonIncreasingTimestamps ==
    \A i, j \in 1..Len(delegateCalls) :
        i < j => Timestamp(delegateCalls[i]) >= Timestamp(delegateCalls[j])

\* A batch over operations given earliest first, two calls made
C3_Witness ==
    /\ pc = "undo"
    /\ batch.allOps = Session
    /\ Len(delegateCalls) >= 2
    /\ Timestamp(delegateCalls[1]) > Timestamp(delegateCalls[2])

----------------------------------------------------------------------------
(* Grouping *)

\* The last call was groupOperationsIntoTurns, directly or by autoGroupOperations
GroupingReturned == last.op \in GroupingCalls

\* The operations of the last grouping's input that were ungrouped at the call
UngroupedInput == {o \in Range(last.ops) : o \notin DOMAIN before.operationToTurn}

\* The turns returned by the last call that hold operation o
NewTurnsOf(o) == {t \in Range(last.ret) : o \in Range(turns[t].operations)}

\* a and b follow one another in the ungrouped input sorted by timestamp
Consecutive(a, b) ==
    /\ a # b
    /\ Timestamp(a) <= Timestamp(b)
    /\ ~\E c \in UngroupedInput :
           Timestamp(a) < Timestamp(c) /\ Timestamp(c) < Timestamp(b)

\* The rule of C4: consecutive operations share a new turn iff they are at
\* most the gap apart, and every ungrouped operation is in exactly one new turn
GroupingRule ==
    /\ \A o \in UngroupedInput : Cardinality(NewTurnsOf(o)) = 1
    /\ \A a, b \in UngroupedInput :
          Consecutive(a, b) =>
              ((NewTurnsOf(a) = NewTurnsOf(b))
                  <=> (Timestamp(b) - Timestamp(a) <= last.gap))

\* The input of the example: the operations at 0 s, 60 s, 120 s and 400 s,
\* all ungrouped, with a gap of 300 s
ExampleInput ==
    /\ GroupingReturned
    /\ last.gap = 300000
    /\ UngroupedInput = Range(last.ops)
    /\ {Timestamp(o) : o \in UngroupedInput} = {0, 60000, 120000, 400000}
    /\ Cardinality(UngroupedInput) = 4

\* The member sets of the turns returned by the last call, by timestamp
ReturnedPartition ==
    {{Timestamp(o) : o \in Range(turns[t].operations)} : t \in Range(last.ret)}

\* C4 as claimed: the rule, and the example giving {0,60,120} and {400}.
C4_AsClaimed ==
    GroupingReturned =>
        /\ GroupingRule
        /\ ExampleInput =>
              /\ Len(last.ret) = 2
              /\ ReturnedPartition = {{0, 60000, 120000}, {400000}}

\* C4 (amended): after groupOperationsIntoTurns(ops, G), two consecutive
\* operations of the ungrouped input sorted by timestamp are in the same new
\* turn iff their timestamps differ by at most G, and every ungrouped input
\* operation is in exactly one new turn; timestamps 0 s, 60 s, 120 s, 400 s
\* with G = 300 s give the single turn {0,60,120,400} (400 - 120 = 280 <= 300).
C4_GroupingByGap ==
    GroupingReturned =>
        /\ GroupingRule
        /\ ExampleInput =>
              /\ Len(last.ret) = 1
              /\ ReturnedPartition = {{0, 60000, 120000, 400000}}

\* A grouping that kept two operations exactly the gap apart together and
\* split at a larger difference
C4_Witness ==
    /\ GroupingReturned
    /\ last.gap = 60000
    /\ Len(last.ret) = 2
    /\ \E a, b, c \in UngroupedInput :
          /\ Timestamp(b) - Timestamp(a) = last.gap
          /\ NewTurnsOf(a) = NewTurnsOf(b)
          /\ Timestamp(c) - Timestamp(b) > last.gap
          /\ Consecutive(b, c)
          /\ NewTurnsOf(c) # NewTurnsOf(b)

\* C5: a grouping call that repeats the call before it (same operation list,
\* same gap) returns no turn and leaves the turn store and the reverse index
\* as the first call left them.
C5_GroupingIdempotent ==
    (GroupingReturned /\ last.again) =>
        /\ last.ret = << >>
        /\ turns = before.turns
        /\ operationToTurn = before.operationToTurn

\* A repeated grouping of a list whose first grouping made turns
C5_Witness ==
    /\ GroupingReturned
    /\ last.again
    /\ last.ops # << >>
    /\ \E o \in Range(last.ops) : o \in DOMAIN operationToTurn

\* C6: groupOperationsIntoTurns leaves every turn that existed before the
\* call as it was (members, description, startTime, endTime, completed) and
\* every entry of the reverse index that existed before the call as it was.
C6_GroupingKeepsExisting ==
    GroupingReturned =>
        /\ \A t \in DOMAIN before.turns :
              t \in DOMAIN turns /\ turns[t] = before.turns[t]
        /\ \A o \in DOMAIN before.operationToTurn :
              /\ o \in DOMAIN operationToTurn
              /\ operationToTurn[o] = before.operationToTurn[o]

\* A grouping that made a turn, given a list with an operation grouped before
C6_Witness ==
    /\ GroupingReturned
    /\ last.ret # << >>
    /\ before.turns # << >>
    /\ \E o \in Range(last.ops) : o \in DOMAIN before.operationToTurn

\* C7: groupOperationsIntoTurns returns exactly the turns it created (those
\* of the store after the call that were not in it before), each once, each
\* with at least one member and COMPLETED; with no ungrouped operation in the
\* input it returns the empty list and the store has the turns it had.
C7_ReturnsCreatedTurns ==
    GroupingReturned =>
        /\ Range(last.ret) = DOMAIN turns \ DOMAIN before.turns
        /\ IsSet(last.ret)
        /\ \A t \in Range(last.ret) :
              /\ Len(turns[t].operations) >= 1
              /\ turns[t].completed
              /\ turns[t].endTime # Null
        /\ UngroupedInput = {} =>
              /\ last.ret = << >>
              /\ DOMAIN turns = DOMAIN before.turns

\* A grouping that returned two turns while another turn existed
C7_Witness ==
    /\ GroupingReturned
    /\ Len(last.ret) >= 2
    /\ before.turns # << >>

----------------------------------------------------------------------------
(* The turn store *)

\* C8: no operation id is in the member list of two different turns.
C8_AtMostOneTurn ==
    \A t1, t2 \in DOMAIN turns :
        t1 # t2 =>
            Range(turns[t1].operations) \cap Range(turns[t2].operations) = {}

\* C9 as claimed: once a public operation has returned, no turn of the store
\* or of the persisted document has an empty member list.
C9_AsClaimed ==
    pc = "idle" =>
        /\ \A t \in DOMAIN turns : turns[t].operations # << >>
        /\ \A t \in DOMAIN persisted : persisted[t].operations # << >>

\* The calls that make a turn without members
MakesEmptyTurn ==
    \/ last.op = "createTurn"
    \/ last.op = "createTurnWithOperations" /\ last.ids = << >>

\* C9 (amended): a turn with an empty member list comes into the turn store
\* only as the new turn of createTurn or of createTurnWithOperations with an
\* empty id list, and into the persisted document only by saving a store that
\* holds it; no other call leaves a turn empty that was not empty before it
\* (removeOperationsFromTurns and undoTurn delete the turn they empty, and
\* groupOperationsIntoTurns makes no empty turn).
C9_EmptyTurnsOnlyAsCreated ==
    /\ \A t \in DOMAIN turns :
          turns[t].operations = << >> =>
              \/ t \in DOMAIN before.turns /\ before.turns[t].operations = << >>
              \/ t \notin DOMAIN before.turns /\ MakesEmptyTurn
    /\ \A t \in DOMAIN persisted :
          persisted[t].operations = << >> =>
              \/ t \in DOMAIN before.persisted
                 /\ before.persisted[t].operations = << >>
              \/ t \in DOMAIN turns /\ turns[t].operations = << >>

\* A removal or an undoTurn batch that took the last member of a turn
C9_Witness ==
    /\ pc = "idle"
    /\ last.op \in {"removeOperationsFromTurns", "undoTurn"}
    /\ \E t \in DOMAIN before.turns :
          /\ before.turns[t].operations # << >>
          /\ t \notin DOMAIN turns
    /\ \E t \in DOMAIN turns : turns[t].operations = << >>

\* The position of the first occurrence of x in s
FirstIndex(s, x) == CHOOSE i \in 1..Len(s) : s[i] = x /\ \A j \in 1..(i - 1) : s[j] # x

\* s holds the ids of `ids`, each once, in the order of their first occurrences
FirstOccurrences(s, ids) ==
    /\ IsSet(s)
    /\ Range(s) = Range(ids)
    /\ \A i, j \in 1..Len(s) :
          i < j => FirstIndex(ids, s[i]) < FirstIndex(ids, s[j])

\* The member list `new` keeps the order of `old`: ids in both are in the
\* same order, and an id that is only in `new` comes after every id of `old`
KeepsOrder(old, new) ==
    \A i, j \in 1..Len(new) :
        i < j =>
            /\ (new[i] \in Range(old) /\ new[j] \in Range(old))
                  => FirstIndex(old, new[i]) < FirstIndex(old, new[j])
            /\ new[j] \in Range(old) => new[i] \in Range(old)

\* C10: no member list holds an id twice; a call keeps the order of the
\* members a turn had and appends the ids it adds; addOperationToTurn of an id
\* the turn already holds changes nothing of the turn; and the turn made by
\* createTurnWithOperations holds the supplied ids once each, in the order of
\* their first occurrences.
C10_MemberListsDuplicateFree ==
    /\ \A t \in DOMAIN turns : IsSet(turns[t].operations)
    /\ \A t \in DOMAIN turns \cap DOMAIN before.turns :
          KeepsOrder(before.turns[t].operations, turns[t].operations)
    /\ (/\ last.op = "addOperationToTurn"
        /\ last.turnId \in DOMAIN before.turns
        /\ last.ids[1] \in Range(before.turns[last.turnId].operations))
          => turns[last.turnId] = before.turns[last.turnId]
    /\ last.op = "createTurnWithOperations" =>
          FirstOccurrences(turns[last.ret[1]].operations, last.ids)

\* An addOperationToTurn of the first of the two members of a turn
C10_Witness ==
    /\ last.op = "addOperationToTurn"
    /\ last.turnId \in DOMAIN before.turns
    /\ Len(before.turns[last.turnId].operations) = 2
    /\ last.ids[1] = before.turns[last.turnId].operations[1]

----------------------------------------------------------------------------
(* Persistence *)

\* The TurnManager calls that change the store
MutatingCalls ==
    {"createTurn", "addOperationToTurn", "completeTurn",
     "groupOperationsIntoTurns", "removeOperationsFromTurns"}

\* C11: when createTurn, addOperationToTurn, completeTurn,
\* groupOperationsIntoTurns or removeOperationsFromTurns has returned, the
\* persisted document is the document of the in-memory store.
C11_PersistedEqualsStore ==
    (pc = "idle" /\ last.op \in MutatingCalls)
        => persisted = SavedDocument(turns)

\* What fs.readFile and JSON.parse find at turns.json: no file, text that is
\* not JSON, the JSON value null, or a JSON object whose "turns" are `entries`
\* (an object without "turns" has none)
MissingFile == [kind |-> "missing", entries |-> << >>]
Unparseable == [kind |-> "unparseable", entries |-> << >>]
NullDocument == [kind |-> "null", entries |-> << >>]
JsonDocument(entries) == [kind |-> "object", entries |-> entries]

\* An element of "turns": null, or a JSON object with some properties
NullEntry == [null |-> TRUE, json |-> << >>]
ObjectEntry(json) == [null |-> FALSE, json |-> json]

\* The inner loop of loadTurns: operationToTurn.set(opId, turn.id) for every
\* member id from index i on
RECURSIVE IndexOperations(_, _, _, _)
IndexOperations(m, operations, turnId, i) ==
    IF i > Len(operations) THEN m
    ELSE IndexOperations(MapSet(m, operations[i], turnId), operations, turnId, i + 1)

\* The for loop of loadTurns from entry i on. Turn.fromJSON(null) throws (it
\* reads a property of null); thrown tells that the loop was left by a throw.
RECURSIVE LoadEntries(_, _, _)
LoadEntries(st, entries, i) ==
    IF i > Len(entries) THEN [st |-> st, thrown |-> FALSE]
    ELSE IF entries[i].null THEN [st |-> st, thrown |-> TRUE]
    ELSE LET turn == FromJSON(entries[i].json)
         IN  LoadEntries(
                 Store(MapSet(st.turns, turn.id, turn),
                       IndexOperations(st.operationToTurn, turn.operations,
                                       turn.id, 1)),
                 entries, i + 1)

\* TurnManager.loadTurns: readFile throws on a missing file, JSON.parse on
\* text that is not JSON, turnsData.turns on null; the catch clears both maps
LoadTurns(st, document) ==
    IF document.kind # "object" THEN Store(<< >>, << >>)
    ELSE LET r == LoadEntries(st, document.entries, 1)
         IN  IF r.thrown THEN Store(<< >>, << >>) ELSE r.st

\* The most entries of a document on disk
MaxEntries == 2

\* Elements of "turns": three that saveTurns wrote, null, the empty object,
\* and two objects that lack properties of a serialized turn
Entries ==
    {ObjectEntry(ToJSON(Complete(
         AddOperation(AddOperation(NewTurn(1, << >>, 0), 1), 2), 1))),
     ObjectEntry(ToJSON(AddOperation(NewTurn(2, <<"manual">>, 0), 3))),
     ObjectEntry(ToJSON(NewTurn(3, << >>, 1))),
     NullEntry,
     ObjectEntry(<< >>),
     ObjectEntry([id |-> 3, operations |-> <<4>>]),
     ObjectEntry([id |-> 1, description |-> <<"manual">>,
                  timestamp |-> ToISOString(0)])}

\* The documents a TurnManager may find on disk
Documents ==
    {MissingFile, Unparseable, NullDocument}
        \cup {JsonDocument(entries) :
                 entries \in UNION {[1..n -> Entries] : n \in 0..MaxEntries}}

\* new TurnManager() over some document on disk
InitLoad ==
    /\ turns = << >>
    /\ operationToTurn = << >>
    /\ persisted \in Documents
    /\ nextTurnId = 1
    /\ now = 0
    /\ pc = "new"
    /\ batch = NoBatch
    /\ delegateCalls = << >>
    /\ delegateOutcomes = << >>
    /\ last = Call("constructor")
    /\ before = [turns |-> << >>, operationToTurn |-> << >>, persisted |-> << >>]
    /\ calls = 0

\* TurnManager.init: ensureDir, then loadTurns
InitTurnManager ==
    /\ pc = "new"
    /\ LET st == LoadTurns(Store(turns, operationToTurn), persisted)
       IN  /\ turns' = st.turns
           /\ operationToTurn' = st.operationToTurn
    /\ pc' = "idle"
    /\ last' = Call("init")
    /\ before' = Snapshot
    /\ UNCHANGED <<persisted, nextTurnId, now, batch, delegateCalls,
                   delegateOutcomes, calls>>

NextLoad == InitTurnManager

\* A TurnManager constructed and initialized over any document
SpecLoad == InitLoad /\ [][NextLoad]_vars

\* The properties of a turn that toJSON writes
TurnProperties ==
    {"id", "timestamp", "description", "operations", "startTime", "endTime",
     "completed"}

\* The document is missing, unparseable or malformed
Corrupt(document) ==
    \/ document.kind # "object"
    \/ \E i \in 1..Len(document.entries) :
          \/ document.entries[i].null
          \/ DOMAIN document.entries[i].json # TurnProperties

\* C12: init over a missing or corrupt (unparseable or malformed) document
\* leaves the store and the reverse index empty.
C12_CorruptDocumentLoadsEmpty ==
    (pc = "idle" /\ last.op = "init" /\ Corrupt(persisted))
        => (turns = << >> /\ operationToTurn = << >>)

\* Whenever the load throws, the catch leaves both maps empty
LoadThrowsLeavesEmpty ==
    (/\ pc = "idle"
     /\ \/ persisted.kind # "object"
        \/ \E i \in 1..Len(persisted.entries) : persisted.entries[i].null)
        => (turns = << >> /\ operationToTurn = << >>)

----------------------------------------------------------------------------
(* The lifecycle of a turn *)

IsOpen(turn) == turn.endTime = Null /\ ~turn.completed

IsCompleted(turn) == turn.endTime # Null /\ turn.completed

\* C13: every turn of the store is open (endTime null, completed false) or
\* completed (endTime set, completed true), never a mix; and a turn that was
\* completed when a call began is completed after it for as long as it is in
\* the store, also when the call detached members of it.
C13_OpenOrCompleted ==
    /\ \A t \in DOMAIN turns : IsOpen(turns[t]) \/ IsCompleted(turns[t])
    /\ \A t \in DOMAIN turns \cap DOMAIN before.turns :
          IsCompleted(before.turns[t]) => IsCompleted(turns[t])

\* An undoTurn batch took members from a completed turn, which is still there
C13_Witness ==
    /\ UndoTurnReturned
    /\ last.turnId \in DOMAIN turns
    /\ IsCompleted(before.turns[last.turnId])
    /\ IsCompleted(turns[last.turnId])
    /\ Len(turns[last.turnId].operations)
          < Len(before.turns[last.turnId].operations)

\* C14: getDuration() is null exactly while the turn is open; and once a turn
\* is completed its duration is endTime - startTime and is the same after
\* every later call, further completeTurn calls included.
C14_DurationStable ==
    /\ \A t \in DOMAIN turns :
          /\ GetDuration(turns[t]) = Null <=> IsOpen(turns[t])
          /\ IsCompleted(turns[t]) =>
                GetDuration(turns[t]) = turns[t].endTime - turns[t].startTime
    /\ \A t \in DOMAIN turns \cap DOMAIN before.turns :
          IsCompleted(before.turns[t]) =>
              GetDuration(turns[t]) = GetDuration(before.turns[t])

----------------------------------------------------------------------------
(* The result of undoTurn *)

\* C15: undoTurn of a turn id that is not in the store returns NotFound, and
\* of a turn none of whose members occurs in allOperations returns Empty (and
\* only then); both return success: false, pass nothing to the undo delegate
\* and leave the store, the reverse index and the document as they were.
C15_NotFoundAndEmpty ==
    (pc = "idle" /\ last.op = "undoTurn") =>
        /\ last.code = "NotFound" <=> last.turnId \notin DOMAIN before.turns
        /\ last.code = "Empty" <=>
              (last.turnId \in DOMAIN before.turns /\ ResolvedMembers = {})
        /\ last.code \in {"NotFound", "Empty"} =>
              /\ ~last.success
              /\ delegateCalls = << >>
              /\ turns = before.turns
              /\ operationToTurn = before.operationToTurn
              /\ persisted = before.persisted

\* Empty for a turn that has members and a list that has operations
C15_Witness ==
    /\ pc = "idle"
    /\ last.op = "undoTurn"
    /\ last.code = "Empty"
    /\ last.ops # << >>
    /\ before.turns[last.turnId].operations # << >>

\* The indices of the delegate calls that returned success: true
Succeeded == {i \in 1..Len(delegateOutcomes) : delegateOutcomes[i] = "success"}

\* C16: the result of an undoTurn batch has success = true iff the undo of at
\* least one operation succeeded; successCount and failCount count the
\* succeeded and the other resolved operations, so their sum is the number of
\* resolved operations; and results has one entry per resolved operation, in
\* processing order, whose success flag is the outcome of that operation.
C16_ResultAccounting ==
    UndoTurnReturned =>
        /\ last.success <=> Succeeded # {}
        /\ last.successCount = Cardinality(Succeeded)
        /\ last.successCount + last.failCount = Len(last.resolved)
        /\ Len(last.results) = Len(last.resolved)
        /\ delegateCalls = last.resolved
        /\ \A i \in 1..Len(last.results) :
              last.results[i].success <=> i \in Succeeded

\* A batch in which one undo succeeded, one returned a failure and one threw
C16_Witness ==
    /\ UndoTurnReturned
    /\ Range(delegateOutcomes) = DelegateOutcomes
    /\ last.successCount = 1
    /\ last.failCount = 2

\* undoTurn has come back to its caller, with a result or with a rejection
UndoTurnEnded == pc = "idle" /\ last.op = "undoTurn"

SucceededOps == {delegateCalls[i] : i \in Succeeded}

\* C18: when every member of a turn has been undone successfully by undoTurn
\* (the members left by earlier batches, in this batch), the turn is neither
\* in the store nor in the persisted document.
C18_FullyUndoneTurnGone ==
    (/\ UndoTurnReturned
     /\ Range(before.turns[last.turnId].operations) \subseteq SucceededOps)
        => (last.turnId \notin DOMAIN turns /\ last.turnId \notin DOMAIN persisted)

\* C19: undoTurn(T, allOperations) passes only members of T to the undo
\* delegate, and leaves every other turn (its member list and its fields) and
\* the reverse-index entry of every operation that is not a member of T as
\* they were.
C19_BatchOverOneTurn ==
    (UndoTurnReturned /\ last.turnId \in DOMAIN before.turns) =>
        LET members == Range(before.turns[last.turnId].operations)
        IN  /\ Range(delegateCalls) \subseteq members
            /\ \A t \in DOMAIN before.turns \ {last.turnId} :
                  t \in DOMAIN turns /\ turns[t] = before.turns[t]
            /\ \A o \in DOMAIN before.operationToTurn \ members :
                  /\ o \in DOMAIN operationToTurn
                  /\ operationToTurn[o] = before.operationToTurn[o]
            /\ DOMAIN operationToTurn \subseteq DOMAIN before.operationToTurn

----------------------------------------------------------------------------
(* removeOperationsFromTurns *)

\* The list without the ids of a set, in the order it had
Except(operations, ids) == SelectSeq(operations, LAMBDA o : o \notin ids)

\* C20: after removeOperationsFromTurns(ids) no id of ids is in a member list
\* or in the reverse index; a turn whose member list became empty is gone;
\* the operations that are not in ids keep their turn and their relative
\* order; and ids that were not tracked change nothing.
C20_RemoveDetaches ==
    last.op = "removeOperationsFromTurns" =>
        LET ids == Range(last.ids)
        IN  /\ \A t \in DOMAIN turns : Range(turns[t].operations) \cap ids = {}
            /\ DOMAIN operationToTurn \cap ids = {}
            /\ \A t \in DOMAIN turns \cap DOMAIN before.turns :
                  turns[t].operations = << >>
                      => before.turns[t].operations = << >>
            /\ \A t \in DOMAIN before.turns :
                  Except(before.turns[t].operations, ids) # << >> =>
                      /\ t \in DOMAIN turns
                      /\ turns[t].operations
                            = Except(before.turns[t].operations, ids)
            /\ \A o \in DOMAIN before.operationToTurn \ ids :
                  /\ o \in DOMAIN operationToTurn
                  /\ operationToTurn[o] = before.operationToTurn[o]
            /\ ids \cap DOMAIN before.operationToTurn = {} =>
                  /\ turns = before.turns
                  /\ operationToTurn = before.operationToTurn

----------------------------------------------------------------------------
(* createTurnWithOperations *)

\* createTurnWithOperations added the turn last.ret[1] and nothing else, the
\* turn is completed and is in the document as the store has it
AddsOneCompletedTurn ==
    LET id == last.ret[1]
    IN  /\ id \notin DOMAIN before.turns
        /\ DOMAIN turns = DOMAIN before.turns \cup {id}
        /\ \A t \in DOMAIN before.turns : turns[t] = before.turns[t]
        /\ IsCompleted(turns[id])
        /\ id \in DOMAIN persisted
        /\ persisted[id] = ToJSON(turns[id])

\* C24 as claimed: the member list of the new turn is the supplied list.
C24_AsClaimed ==
    last.op = "createTurnWithOperations" =>
        (AddsOneCompletedTurn /\ turns[last.ret[1]].operations = last.ids)

\* C24: createTurnWithOperations(ids, description, allOps) adds exactly one
\* turn, whose member list is the distinct supplied ids in the order of their
\* first occurrences (the supplied list when it has no repeated id), which is
\* completed and is in the persisted document when the call returns.
C24_AddsOneTurn ==
    last.op = "createTurnWithOperations" =>
        /\ AddsOneCompletedTurn
        /\ FirstOccurrences(turns[last.ret[1]].operations, last.ids)
        /\ IsSet(last.ids) => turns[last.ret[1]].operations = last.ids

\* A turn made of two ids, one of which another turn already held
C24_Witness ==
    /\ last.op = "createTurnWithOperations"
    /\ Len(last.ids) = 2
    /\ IsSet(last.ids)
    /\ turns[last.ret[1]].operations = last.ids
    /\ \E t \in DOMAIN before.turns :
          last.ids[2] \in Range(before.turns[t].operations)

----------------------------------------------------------------------------
(* Serialization *)

\* C28: a turn of the store serialized with toJSON and reconstructed with
\* fromJSON has the same id, the same member ids in the same order, the same
\* timestamp, startTime and endTime (null stays null), and the same
\* description and completed flag.
C28_RoundTrip ==
    \A t \in DOMAIN turns :
        LET turn == turns[t]
            back == FromJSON(ToJSON(turn))
        IN  /\ back.id = turn.id
            /\ back.operations = turn.operations
            /\ back.timestamp = turn.timestamp
            /\ back.startTime = turn.startTime
            /\ back.endTime = turn.endTime
            /\ back.description = turn.description
            /\ back.completed = turn.completed

\* The store holds an open turn and a turn with two members that was
\* completed after the clock advanced
C28_Witness ==
    /\ \E t \in DOMAIN turns : IsOpen(turns[t])
    /\ \E t \in DOMAIN turns :
          /\ IsCompleted(turns[t])
          /\ Len(turns[t].operations) = 2
          /\ turns[t].endTime > turns[t].startTime

----------------------------------------------------------------------------
(* Turn.generateDescription *)

\* The longest list of operations described
MaxTypes == 3

\* The types of the operations of a list handed to generateDescription
TypeLists == UNION {[1..n -> OperationType] : n \in 0..MaxTypes}

\* A call of Turn.generateDescription(operations) is about to run
InitDescribe ==
    /\ turns = << >>
    /\ operationToTurn = << >>
    /\ persisted = << >>
    /\ nextTurnId = 1
    /\ now = 0
    /\ pc = "describe"
    /\ batch = NoBatch
    /\ delegateCalls = << >>
    /\ delegateOutcomes = << >>
    /\ \E types \in TypeLists :
          last = [Call("generateDescription") EXCEPT
                     !.types = types, !.code = "running"]
    /\ before = [turns |-> << >>, operationToTurn |-> << >>, persisted |-> << >>]
    /\ calls = 0

\* Turn.generateDescription(operations) returns its phrase
GenerateDescriptionReturn ==
    /\ pc = "describe"
    /\ pc' = "idle"
    /\ last' = [last EXCEPT !.ret = DescribeTypes(last.types), !.code = "ok"]
    /\ UNCHANGED <<turns, operationToTurn, persisted, nextTurnId, now, batch,
                   delegateCalls, delegateOutcomes, before, calls>>

NextDescribe == GenerateDescriptionReturn

\* Turn.generateDescription over every list of up to MaxTypes operations
SpecDescribe == InitDescribe /\ [][NextDescribe]_vars

\* generateDescription has returned the phrase last.ret for last.types
Described == pc = "idle" /\ last.op = "generateDescription"

\* C25: the description generated for a turn of two operations (the one
\* createTurnWithOperations([a, b], "", ops) gives the turn) is not empty,
\* whatever the types of the two operations.
C25_PairDescriptionNonEmpty ==
    (Described /\ Len(last.types) = 2) => last.ret # << >>

\* The number of entries of a list of types that are in a set of types
CountOf(types, S) == Cardinality({i \in 1..Len(types) : types[i] \in S})

\* The phrase of a bucket of n operations
BucketPhrase(n, one, many) == <<ToString(n), IF n = 1 THEN one ELSE many>>

\* The phrase for f file or directory mutations and c commands
MixedPhrase(f, c) ==
    CASE f > 0 /\ c > 0 ->
             BucketPhrase(f, "file op", "file ops") \o <<"+">>
                 \o BucketPhrase(c, "command", "commands")
      [] f > 0 /\ c = 0 -> BucketPhrase(f, "file op", "file ops")
      [] f = 0 /\ c > 0 -> BucketPhrase(c, "command", "commands")
      [] OTHER -> << >>

\* C26: for a list of operations of mixed types, generateDescription counts
\* every file or directory mutation in the "file ops" bucket and every
\* bash_command in the "commands" bucket, so that the two counts sum to the
\* length of the list, and joins the phrases of the non-empty buckets with
\* " + ".
C26_MixedBuckets ==
    (Described /\ Cardinality(Range(last.types)) > 1) =>
        LET f == CountOf(last.types, OperationType \ {"bash_command"})
            c == CountOf(last.types, {"bash_command"})
        IN  /\ f + c = Len(last.types)
            /\ last.ret = MixedPhrase(f, c)

\* The phrases of the types that have a template of their own
Singular(type) ==
    CASE type = "file_create" -> <<"Created", "1", "file">>
      [] type = "file_edit" -> <<"Edited", "1", "file">>
      [] type = "file_delete" -> <<"Deleted", "1", "file">>
      [] type = "bash_command" -> <<"Ran", "1", "command">>

Plural(type, n) ==
    CASE type = "file_create" -> <<"Created", ToString(n), "files">>
      [] type = "file_edit" -> <<"Edited", ToString(n), "files">>
      [] type = "file_delete" -> <<"Deleted", ToString(n), "files">>
      [] type = "bash_command" -> <<"Ran", ToString(n), "commands">>

HasTemplate(type) ==
    type \in {"file_create", "file_edit", "file_delete", "bash_command"}

\* C27: for a non-empty list of n operations of one type, generateDescription
\* returns the template of the type in the singular for n = 1 and in the
\* plural for n > 1, and "Performed n {type} operations" for a type without a
\* template of its own.
C27_SingleTypeTemplates ==
    (Described /\ Cardinality(Range(last.types)) = 1) =>
        LET type == last.types[1]
            n == Len(last.types)
        IN  last.ret =
                IF ~HasTemplate(type)
                THEN <<"Performed", ToString(n), type, "operations">>
                ELSE IF n = 1 THEN Singular(type) ELSE Plural(type, n)

\* "Created 3 files" was returned for three file_create operations
C27_Witness ==
    /\ Described
    /\ last.types = <<"file_create", "file_create", "file_create">>
    /\ last.ret = <<"Created", "3", "files">>

----------------------------------------------------------------------------
(* The group-turns command (bin/ccundo.js) *)

\* What a new process finds at turns.json after the saves of earlier ones:
\* nothing when no turn was ever saved, else the saved turns in Map order
DocumentOnDisk(document) ==
    IF DOMAIN document = {} THEN MissingFile
    ELSE LET ids == SeqAsc(DOMAIN document)
         IN  JsonDocument([i \in 1..Len(ids) |-> ObjectEntry(document[ids[i]])])

\* The values of --gap
GapOptions == {1, 5}

\* `ccundo group-turns [--clear] --gap minutes` over the parsed session
\* `operations`: a new TurnUndoManager is initialized from the document,
\* --clear prints a line and does nothing else, autoGroupOperations runs
GroupTurnsCommand(clear, minutes, operations) ==
    /\ Idle
    /\ LET loaded == LoadTurns(Store(<< >>, << >>), DocumentOnDisk(persisted))
       IN  \E adv \in ClockAdvances(Len(UngroupedOps(loaded, operations)) + 1) :
             LET r == GroupOperationsIntoTurns(loaded, operations,
                          minutes * 60 * 1000, now, nextTurnId, adv)
             IN  /\ r.nextId <= MaxTurns + 1
                 /\ turns' = r.st.turns
                 /\ operationToTurn' = r.st.operationToTurn
                 /\ persisted' = IF r.saved THEN SavedDocument(r.st.turns)
                                 ELSE persisted
                 /\ nextTurnId' = r.nextId
                 /\ now' = r.now
                 /\ last' = [Call(IF clear THEN "group-turns --clear"
                                  ELSE "group-turns") EXCEPT
                                !.ops = operations,
                                !.gap = minutes * 60 * 1000, !.ret = r.ret]
                 /\ before' = [turns |-> loaded.turns,
                               operationToTurn |-> loaded.operationToTurn,
                               persisted |-> persisted]
    /\ calls' = calls + 1
    /\ UNCHANGED <<pc, batch, delegateCalls, delegateOutcomes>>

NextCli ==
    \E clear \in BOOLEAN, minutes \in GapOptions, operations \in OpLists :
        GroupTurnsCommand(clear, minutes, operations)

\* Runs of the group-turns command, one process after the other
SpecCli == Init /\ [][NextCli]_vars

\* C30: after `ccundo group-turns --clear --gap N` the turn store holds only
\* turns created by this invocation, and no turn that existed before it.
C30_ClearThenRegroup ==
    last.op = "group-turns --clear" =>
        /\ DOMAIN turns \cap DOMAIN before.turns = {}
        /\ DOMAIN turns = Range(last.ret)
        /\ DOMAIN persisted \cap DOMAIN before.persisted = {}

----------------------------------------------------------------------------
(* The batch loop of undoTurn at the grain of its awaits *)

\* The delegate calls that have begun and not yet returned or thrown
InFlight == Len(delegateCalls) - Len(delegateOutcomes)

\* (mutant) the calls are started without awaiting the one before
MayStartUnawaited(b, started, finished) == started < Len(b.ops)

\* for (const operation of turnOperations) { await undo(operation) }: the
\* call for the next operation may begin when every call begun has finished
MayStart(b, started, finished) == started = finished /\ started < Len(b.ops)

\* this.undoManager.undo(operation) is called
UndoStart ==
    /\ pc = "undo"
    /\ MayStart(batch, Len(delegateCalls), Len(delegateOutcomes))
    /\ delegateCalls' = Append(delegateCalls, batch.ops[Len(delegateCalls) + 1])
    /\ UNCHANGED <<turns, operationToTurn, persisted, nextTurnId, now, pc,
                   batch, delegateOutcomes, last, before, calls>>

\* The awaited call returns or throws, and its entry is pushed to results
UndoFinish(outcome) ==
    /\ pc = "undo"
    /\ InFlight > 0
    /\ delegateOutcomes' = Append(delegateOutcomes, outcome)
    /\ batch' = [batch EXCEPT !.results = Append(@, ResultOf(outcome))]
    /\ UNCHANGED <<turns, operationToTurn, persisted, nextTurnId, now, pc,
                   delegateCalls, last, before, calls>>

NextAwait ==
    \/ \E ops \in OpLists, gap \in GapsMs : GroupOperations(ops, gap)
    \/ \E t \in TurnIds, ops \in OpLists : UndoTurn(t, ops)
    \/ UndoStart
    \/ \E outcome \in DelegateOutcomes : UndoFinish(outcome)
    \/ UndoTurnReturn

\* Grouping and undoTurn, with the start and the end of each delegate call
SpecAwait == Init /\ [][NextAwait]_vars

\* C29: the batch driver is strictly sequential: at most one delegate call
\* is in progress at any time (the next begins only when the one before has
\* returned or thrown), nothing is detached or persisted while the batch
\* runs, and when undoTurn has returned no delegate call is in progress.
C29_StrictlySequential ==
    /\ InFlight \in {0, 1}
    /\ pc = "undo" =>
          /\ turns = before.turns
          /\ operationToTurn = before.operationToTurn
          /\ persisted = before.persisted
    /\ pc = "idle" => InFlight = 0
    /\ UndoTurnReturned =>
          /\ Len(delegateOutcomes) = Len(last.resolved)
          /\ delegateCalls = last.resolved

\* The second delegate call of a batch is in progress, after the first threw
C29_Witness ==
    /\ pc = "undo"
    /\ InFlight = 1
    /\ delegateOutcomes = <<"throw">>
    /\ Len(batch.ops) >= 2

----------------------------------------------------------------------------
(* Cascading undo.  undoTurnWithCascading is called by bin/ccundo.js but is *)
(* not part of core/TurnUndoManager.js as given; it is modelled from       *)
(* section 4.4 of the specification.                                       *)

\* The list with the turn `id` put after the turns that started no earlier
InsertTurn(sorted, id, t) ==
    LET k == Cardinality({i \in 1..Len(sorted) :
                             t[sorted[i]].startTime >= t[id].startTime})
    IN  SubSeq(sorted, 1, k) \o <<id>> \o SubSeq(sorted, k + 1, Len(sorted))

RECURSIVE SortTurnsFrom(_, _, _, _)
SortTurnsFrom(sorted, ids, i, t) ==
    IF i > Len(ids) THEN sorted
    ELSE SortTurnsFrom(InsertTurn(sorted, ids[i], t), ids, i + 1, t)

\* TurnManager.getAllTurns: the turns (their ids), latest startTime first;
\* Array.prototype.sort is stable, so ties stay in Map order
GetAllTurns(t) == SortTurnsFrom(<< >>, SeqAsc(DOMAIN t), 1, t)

\* The turns that undoing turnId cascades to, latest first
CascadedTurns(t, turnId) ==
    SelectSeq(GetAllTurns(t),
              LAMBDA id : t[id].startTime >= t[turnId].startTime)

\* The member ids of the turns of a list
RECURSIVE MembersOf(_, _)
MembersOf(t, ids) ==
    IF ids = << >> THEN {}
    ELSE Range(t[Head(ids)].operations) \cup MembersOf(t, Tail(ids))

\* (mutant) the operations are ordered turn by turn, each turn's latest first
RECURSIVE TurnByTurn(_, _, _)
TurnByTurn(t, ids, allOperations) ==
    IF ids = << >> THEN << >>
    ELSE TurnOperations(t[Head(ids)], allOperations)
             \o TurnByTurn(t, Tail(ids), allOperations)

ResolveCascadeTurnByTurn(t, turnId, allOperations) ==
    LET cascaded == CascadedTurns(t, turnId)
    IN  [turns |-> cascaded,
         operations |-> TurnByTurn(t, cascaded, allOperations)]

\* resolveCascade: the cascaded turns, latest first, and the union of their
\* member operations, by timestamp descending
ResolveCascade(t, turnId, allOperations) ==
    LET cascaded == CascadedTurns(t, turnId)
        members == MembersOf(t, cascaded)
    IN  [turns |-> cascaded,
         operations |->
             SortDescending(SelectSeq(allOperations,
                                      LAMBDA o : o \in members))]

\* TurnUndoManager.undoTurnWithCascading(turnId, allOperations), up to the
\* batch loop; the loop and what follows it are those of undoTurn
UndoTurnWithCascading(turnId, allOperations) ==
    /\ Idle
    /\ calls' = calls + 1
    /\ before' = Snapshot
    /\ delegateCalls' = << >>
    /\ delegateOutcomes' = << >>
    /\ IF turnId \notin DOMAIN turns
       THEN /\ last' = [Call("undoTurnWithCascading") EXCEPT
                           !.turnId = turnId, !.ops = allOperations,
                           !.code = "NotFound", !.success = FALSE]
            /\ UNCHANGED <<pc, batch>>
       ELSE LET cascade == ResolveCascade(turns, turnId, allOperations)
            IN  IF Len(cascade.operations) = 0
                THEN /\ last' = [Call("undoTurnWithCascading") EXCEPT
                                    !.turnId = turnId, !.ops = allOperations,
                                    !.ret = cascade.turns,
                                    !.code = "Empty", !.success = FALSE]
                     /\ UNCHANGED <<pc, batch>>
                ELSE /\ pc' = "undo"
                     /\ batch' = [turnId |-> turnId, allOps |-> allOperations,
                                  ops |-> cascade.operations,
                                  results |-> << >>]
                     /\ last' = [Call("undoTurnWithCascading") EXCEPT
                                    !.turnId = turnId, !.ops = allOperations,
                                    !.ret = cascade.turns,
                                    !.code = "running"]
    /\ UNCHANGED <<turns, operationToTurn, persisted, nextTurnId, now>>

NextCascade ==
    \/ \E ops \in OpLists, gap \in GapsMs : GroupOperations(ops, gap)
    \/ \E o \in OpIds, t \in TurnIds : AddOperationToTurn(o, t)
    \/ \E t \in TurnIds, ops \in OpLists : UndoTurnWithCascading(t, ops)
    \/ \E outcome \in DelegateOutcomes : UndoOperation(outcome)
    \/ UndoTurnReturn

\* Grouping, manual assignment and cascading undo
SpecCascade == Init /\ [][NextCascade]_vars

\* undoTurnWithCascading has returned from a batch
CascadeReturned ==
    pc = "idle" /\ last.op = "undoTurnWithCascading" /\ last.code = "ok"

\* C21: undoing turn T with cascading processes the members of every turn
\* whose startTime >= T.startTime (those that occur in allOperations) and of
\* no turn whose startTime < T.startTime.
C21_CascadeCompleteAndMinimal ==
    CascadeReturned =>
        \A t \in DOMAIN before.turns :
            LET members == Range(before.turns[t].operations)
            IN  IF before.turns[t].startTime
                      >= before.turns[last.turnId].startTime
                THEN members \cap Range(last.ops) \subseteq Range(delegateCalls)
                ELSE members \cap Range(delegateCalls) = {}

\* undoTurnWithCascading has resolved its cascade: last.ret are the cascaded
\* turns, and the operations are batch.ops while the batch runs and
\* last.resolved when it has returned
CascadeResolved ==
    /\ last.op = "undoTurnWithCascading"
    /\ last.code \in {"running", "ok"}

CascadeOperations == IF pc = "undo" THEN batch.ops ELSE last.resolved

\* C22: resolveCascade returns the cascaded turns latest first, and the
\* union of their member operations (those that occur in allOperations) by
\* timestamp descending across all the turns, each operation once.
C22_CascadeOrder ==
    CascadeResolved =>
        /\ \A i, j \in 1..Len(last.ret) :
              i < j => before.turns[last.ret[i]].startTime
                          >= before.turns[last.ret[j]].startTime
        /\ IsSet(last.ret)
        /\ \A i, j \in 1..Len(CascadeOperations) :
              i < j => Timestamp(CascadeOperations[i])
                          >= Timestamp(CascadeOperations[j])
        /\ IsSet(CascadeOperations)
        /\ Range(CascadeOperations)
              = MembersOf(before.turns, last.ret) \cap Range(last.ops)

\* A cascade over two turns whose operations interleave in time: the latest
\* operation and the earliest are of one turn, the one between of the other
C22_Witness ==
    /\ CascadeResolved
    /\ Len(last.ret) = 2
    /\ Len(CascadeOperations) = 3
    /\ \E t \in Range(last.ret) :
          /\ CascadeOperations[1] \in Range(before.turns[t].operations)
          /\ CascadeOperations[2] \notin Range(before.turns[t].operations)
          /\ CascadeOperations[3] \in Range(before.turns[t].operations)

----------------------------------------------------------------------------
(* The read-only methods *)

\* The key of the group of an operation in getOperationsByTurns: its turn
\* id, or Null for 'ungrouped'
GroupKey(st, o) == GetTurnForOperation(st, o)

\* new Date(0), which is before every instant of the clock
Epoch == -1

\* a.turn ? a.turn.startTime : new Date(0)
GroupTime(st, key) ==
    IF key # Null /\ key \in DOMAIN st.turns THEN st.turns[key].startTime
    ELSE Epoch

\* The group keys in the order in which turnGroups.set first saw them
RECURSIVE GroupKeys(_, _, _)
GroupKeys(st, operations, i) ==
    IF i > Len(operations) THEN << >>
    ELSE LET rest == GroupKeys(st, operations, i + 1)
             key == GroupKey(st, operations[i])
         IN  <<key>> \o SelectSeq(rest, LAMBDA k : k # key)

\* .sort((a, b) => bTime - aTime) of the groups, one insertion (stable)
InsertGroup(sorted, key, st) ==
    LET k == Cardinality({i \in 1..Len(sorted) :
                             GroupTime(st, sorted[i]) >= GroupTime(st, key)})
    IN  SubSeq(sorted, 1, k) \o <<key>> \o SubSeq(sorted, k + 1, Len(sorted))

RECURSIVE SortGroupsFrom(_, _, _, _)
SortGroupsFrom(sorted, keys, i, st) ==
    IF i > Len(keys) THEN sorted
    ELSE SortGroupsFrom(InsertGroup(sorted, keys[i], st), keys, i + 1, st)

\* The value getOperationsByTurns returns: the groups { turn, operations },
\* latest turn first, each with the operations of the list that map to it
Groups(st, operations) ==
    LET keys == SortGroupsFrom(<< >>, GroupKeys(st, operations, 1), 1, st)
    IN  [i \in 1..Len(keys) |->
            [turn |-> keys[i],
             operations |->
                 SelectSeq(operations, LAMBDA o : GroupKey(st, o) = keys[i])]]

\* (mutant) a group's operations array is the member list of its turn, so
\* the push of an operation lands in the turn
GetOperationsByTurnsAliased(st, operations) ==
    [st |-> [st EXCEPT !.turns =
                [id \in DOMAIN st.turns |->
                    [st.turns[id] EXCEPT !.operations =
                        @ \o SelectSeq(operations,
                                 LAMBDA o : GroupKey(st, o) = id)]]],
     ret |-> Groups(st, operations)]

\* TurnManager.getOperationsByTurns(operations): the store after the call
\* and the value returned
GetOperationsByTurnsIn(st, operations) ==
    [st |-> st, ret |-> Groups(st, operations)]

\* group.turn ? group.turn.description : 'Ungrouped operations'
GroupDescription(st, key) ==
    IF key # Null /\ key \in DOMAIN st.turns THEN st.turns[key].description
    ELSE <<"Ungrouped", "operations">>

\* TurnUndoManager.getTurnsWithOperations(allOperations)
GetTurnsWithOperationsIn(st, allOperations) ==
    LET r == GetOperationsByTurnsIn(st, allOperations)
    IN  [st |-> r.st,
         ret |-> [i \in 1..Len(r.ret) |->
                     [turn |-> r.ret[i].turn,
                      operations |-> r.ret[i].operations,
                      count |-> Len(r.ret[i].operations),
                      description |-> GroupDescription(st, r.ret[i].turn)]]]

ReadOnlyCalls ==
    {"getTurn", "getAllTurns", "getTurnForOperation", "getOperationsByTurns",
     "getTurnsWithOperations", "previewTurn"}

\* A call of the read-only method `op` that leaves the store st and returns
\* ret.  last.again tells whether the call before it was read-only as well.
ReadCall(op, st, ret) ==
    /\ Idle
    /\ turns' = st.turns
    /\ operationToTurn' = st.operationToTurn
    /\ last' = [Call(op) EXCEPT !.ret = ret,
                                !.again = last.op \in ReadOnlyCalls]
    /\ calls' = calls + 1
    /\ before' = Snapshot
    /\ UNCHANGED <<persisted, nextTurnId, now, pc, batch, delegateCalls,
                   delegateOutcomes>>

\* TurnManager.getTurn(turnId): the turn, or undefined
ReadGetTurn(turnId) ==
    ReadCall("getTurn", Store(turns, operationToTurn),
             IF turnId \in DOMAIN turns THEN <<turns[turnId]>> ELSE << >>)

\* TurnManager.getAllTurns()
ReadGetAllTurns ==
    ReadCall("getAllTurns", Store(turns, operationToTurn), GetAllTurns(turns))

\* TurnManager.getTurnForOperation(operationId): the turn id, or undefined
ReadGetTurnForOperation(operationId) ==
    ReadCall("getTurnForOperation", Store(turns, operationToTurn),
             IF operationId \in DOMAIN operationToTurn
             THEN <<operationToTurn[operationId]>> ELSE << >>)

\* TurnManager.getOperationsByTurns(operations)
ReadGetOperationsByTurns(operations) ==
    LET r == GetOperationsByTurnsIn(Store(turns, operationToTurn), operations)
    IN  ReadCall("getOperationsByTurns", r.st, r.ret)

\* TurnUndoManager.getTurnsWithOperations(allOperations)
ReadGetTurnsWithOperations(allOperations) ==
    LET r == GetTurnsWithOperationsIn(Store(turns, operationToTurn),
                                      allOperations)
    IN  ReadCall("getTurnsWithOperations", r.st, r.ret)

\* TurnUndoManager.previewTurn(turnId, allOperations), from section 4.4 of
\* the specification: the cascade is resolved and previewed, nothing changes
PreviewTurn(turnId, allOperations) ==
    ReadCall("previewTurn", Store(turns, operationToTurn),
             IF turnId \in DOMAIN turns
             THEN ResolveCascade(turns, turnId, allOperations).operations
             ELSE << >>)

NextRead ==
    \/ \E ops \in OpLists, gap \in GapsMs : GroupOperations(ops, gap)
    \/ \E o \in OpIds, t \in TurnIds : AddOperationToTurn(o, t)
    \/ \E t \in TurnIds : ReadGetTurn(t)
    \/ ReadGetAllTurns
    \/ \E o \in OpIds : ReadGetTurnForOperation(o)
    \/ \E ops \in OpLists : ReadGetOperationsByTurns(ops)
    \/ \E ops \in OpLists : ReadGetTurnsWithOperations(ops)
    \/ \E t \in TurnIds, ops \in OpLists : PreviewTurn(t, ops)

\* Grouping and manual assignment, with the read-only methods among them
SpecRead == Init /\ [][NextRead]_vars

\* C23: getTurn, getAllTurns, getTurnForOperation, getOperationsByTurns,
\* getTurnsWithOperations and previewTurn leave the turn store (every turn's
\* fields and member order), the reverse index and the persisted document as
\* they were, however often and in whatever order they are called.
C23_ReadOnlyCallsChangeNothing ==
    last.op \in ReadOnlyCalls =>
        /\ turns = before.turns
        /\ operationToTurn = before.operationToTurn
        /\ persisted = before.persisted

\* getTurnsWithOperations, right after another read-only call, returned two
\* groups of a store that holds turns with members
C23_Witness ==
    /\ last.op = "getTurnsWithOperations"
    /\ last.again
    /\ Len(last.ret) >= 2
    /\ \E i \in 1..Len(last.ret) :
          /\ last.ret[i].turn \in DOMAIN turns
          /\ last.ret[i].count >= 1


(***************************************************************************)
(* Agreement of the reverse index and the member lists                     *)
(***************************************************************************)

\* C31: the reverse index and the member lists agree: operationToTurn[op] = t
\* iff t is a turn of the store and op is in the member list of t.
C31_IndexAgreesWithMembers ==
    \A o \in OpIds : \A t \in 1..MaxTurns :
        (o \in DOMAIN operationToTurn /\ operationToTurn[o] = t)
            <=> (t \in DOMAIN turns /\ o \in Range(turns[t].operations))


(***************************************************************************)
(* startTime of the turns of one grouping call                             *)
(***************************************************************************)

\* The turns of the store that a cascade from turnId selects by startTime
SelectedFrom(turnId) ==
    {t \in DOMAIN turns : turns[t].startTime >= turns[turnId].startTime}

\* C32: the turns created by one grouping call have strictly increasing
\* startTime in creation order, so the selection startTime >= T.startTime
\* gives only T for the latest of them and leaves out the k-1 turns created
\* before the k-th of them.
C32_CreatedStartTimesIncrease ==
    GroupingReturned =>
        /\ \A i, j \in 1..Len(last.ret) :
               i < j => turns[last.ret[i]].startTime < turns[last.ret[j]].startTime
        /\ Len(last.ret) > 0 =>
               SelectedFrom(last.ret[Len(last.ret)]) = {last.ret[Len(last.ret)]}
        /\ \A k \in 1..Len(last.ret) : \A i \in 1..(k - 1) :
               last.ret[i] \notin SelectedFrom(last.ret[k])


\* C33: the startTime order of the turns of the store agrees with the
\* chronology of their operations: when A.startTime < B.startTime, no
\* operation of A has a later timestamp than an operation of B.
C33_StartTimeOrderIsChronology ==
    \A a, b \in DOMAIN turns :
        turns[a].startTime < turns[b].startTime =>
            \A i \in 1..Len(turns[a].operations) :
                \A j \in 1..Len(turns[b].operations) :
                    Timestamp(turns[a].operations[i])
                        <= Timestamp(turns[b].operations[j])


(***************************************************************************)
(* Grouping in batches: a call on part of the operations, then a call on   *)
(* all of them                                                             *)
(***************************************************************************)

\* Gaps of the two calls: the default of groupOperationsIntoTurns and five
\* minutes
BatchGaps == {60000, 300000}

\* The lists whose operations are all in the list `operations`
SubLists(operations) == {s \in OpLists : Range(s) \subseteq Range(operations)}

\* TurnManager.groupOperationsIntoTurns(operations, timeGapMs) called right
\* after a grouping call with the same gap over some of these operations.
\* `before` keeps the store from which the first call began, last.ids the
\* list of the first call.
GroupOperationsOnFullList(operations) ==
    /\ Idle
    /\ last.op \in GroupingCalls
    /\ last.code = "ok"
    /\ last.ops \in SubLists(operations)
    /\ \E adv \in ClockAdvances(
                Len(UngroupedOps(Store(turns, operationToTurn), operations)) + 1) :
         LET r == GroupOperationsIntoTurns(Store(turns, operationToTurn),
                      operations, last.gap, now, nextTurnId, adv)
         IN  /\ r.nextId <= MaxTurns + 1
             /\ turns' = r.st.turns
             /\ operationToTurn' = r.st.operationToTurn
             /\ persisted' = IF r.saved THEN SavedDocument(r.st.turns)
                             ELSE persisted
             /\ nextTurnId' = r.nextId
             /\ now' = r.now
             /\ last' = [Call("groupOperationsIntoTurns") EXCEPT
                            !.ops = operations, !.gap = last.gap,
                            !.ids = last.ops, !.ret = r.ret,
                            !.code = "batched"]
    /\ calls' = calls + 1
    /\ UNCHANGED <<pc, batch, delegateCalls, delegateOutcomes, before>>

NextBatches ==
    \/ \E description \in Descriptions : CreateTurn(description)
    \/ \E ids \in IdLists, description \in Descriptions :
           CreateTurnWithOperations(ids, description, Session)
    \/ \E ops \in OpLists, gap \in BatchGaps : GroupOperations(ops, gap)
    \/ \E ops \in OpLists : GroupOperationsOnFullList(ops)

\* A starting state made by hand, then a grouping in two calls
SpecBatches == Init /\ [][NextBatches]_vars

\* The member sets of the turns of a store that are not in `old`
CreatedGroups(t, old) ==
    {Range(t[id].operations) : id \in DOMAIN t \ DOMAIN old}

\* The turns one call on the full list creates from the store where the two
\* calls began (turn ids above MaxTurns are fresh)
OneCallGroups ==
    CreatedGroups(
        GroupOperationsIntoTurns(Store(before.turns, before.operationToTurn),
            last.ops, last.gap, 0, MaxTurns + 1, {}).st.turns,
        before.turns)

TwoCallGroups == CreatedGroups(turns, before.turns)

GroupedInBatches == last.op = "groupOperationsIntoTurns" /\ last.code = "batched"

Reloaded ==
    LoadTurns(Store(<< >>, << >>), DocumentOnDisk(SavedDocument(turns)))

\* C35: saveTurns followed by init of a fresh TurnManager gives the same
\* turns (ids, member order, description, startTime, endTime, completed
\* flag) and the same reverse index as the store before the save.
C35_ReloadReproducesStore ==
    /\ DOMAIN Reloaded.turns = DOMAIN turns
    /\ \A t \in DOMAIN turns :
           /\ Reloaded.turns[t].id = turns[t].id
           /\ Reloaded.turns[t].operations = turns[t].operations
           /\ Reloaded.turns[t].description = turns[t].description
           /\ Reloaded.turns[t].startTime = turns[t].startTime
           /\ Reloaded.turns[t].endTime = turns[t].endTime
           /\ Reloaded.turns[t].completed = turns[t].completed
    /\ Reloaded.operationToTurn = operationToTurn


(***************************************************************************)
(* Grouping after an undo                                                  *)
(***************************************************************************)

\* TurnManager.groupOperationsIntoTurns(operations, timeGapMs) called right
\* after undoTurn returned, over the operation list that undoTurn was given.
\* last keeps the resolved operations and the results of that undoTurn.
GroupOperationsAfterUndo(timeGapMs) ==
    /\ Idle
    /\ last.op = "undoTurn"
    /\ last.code = "ok"
    /\ \E adv \in ClockAdvances(
                Len(UngroupedOps(Store(turns, operationToTurn), last.ops)) + 1) :
         LET r == GroupOperationsIntoTurns(Store(turns, operationToTurn),
                      last.ops, timeGapMs, now, nextTurnId, adv)
         IN  /\ r.nextId <= MaxTurns + 1
             /\ turns' = r.st.turns
             /\ operationToTurn' = r.st.operationToTurn
             /\ persisted' = IF r.saved THEN SavedDocument(r.st.turns)
                             ELSE persisted
             /\ nextTurnId' = r.nextId
             /\ now' = r.now
             /\ last' = [Call("groupOperationsIntoTurns") EXCEPT
                            !.ops = last.ops, !.gap = timeGapMs, !.ret = r.ret,
                            !.turnId = last.turnId,
                            !.resolved = last.resolved,
                            !.results = last.results,
                            !.code = "after undoTurn"]
    /\ calls' = calls + 1
    /\ before' = Snapshot
    /\ UNCHANGED <<pc, batch, delegateCalls, delegateOutcomes>>

NextRegroup ==
    \/ \E ops \in OpLists, gap \in GapsMs : GroupOperations(ops, gap)
    \/ \E ids \in IdLists, description \in Descriptions :
           CreateTurnWithOperations(ids, description, Session)
    \/ \E t \in TurnIds, ops \in OpLists : UndoTurn(t, ops)
    \/ \E outcome \in DelegateOutcomes : UndoOperation(outcome)
    \/ UndoTurnReturn
    \/ \E gap \in GapsMs : GroupOperationsAfterUndo(gap)

\* Turns are made, one is undone, and the same operations are grouped again
SpecRegroup == Init /\ [][NextRegroup]_vars

GroupedAfterUndo ==
    last.op = "groupOperationsIntoTurns" /\ last.code = "after undoTurn"

\* C36: an operation that undoTurn has successfully undone and detached is
\* not grouped again: a grouping call over the same operation list after it
\* creates no turn that contains the operation.
C36_UndoneNotRegrouped ==
    GroupedAfterUndo =>
        \A i \in 1..Len(last.resolved) :
            (last.results[i].success
                 /\ last.resolved[i] \notin DOMAIN before.operationToTurn)
            => \A k \in 1..Len(last.ret) :
                   last.resolved[i] \notin Range(turns[last.ret[k]].operations)


(***************************************************************************)
(* The turn after an undoTurn without failures                             *)
(***************************************************************************)

UndoneWithoutFailure ==
    UndoTurnReturned /\ last.success /\ last.failCount = 0

\* The member ids of the turn, as the call began, that the call resolved from
\* allOperations and that the reverse index mapped to the turn
DetachableMembers ==
    {o \in Range(before.turns[last.turnId].operations) :
        /\ o \in Range(last.resolved)
        /\ o \in DOMAIN before.operationToTurn
        /\ before.operationToTurn[o] = last.turnId}

GetTurnsForUndoSelection(st, operations) == Groups(st, operations)

\* availableTurns.find(group => group.turn.id === turnId): the groups of
\* the turn, the one found first (empty for undefined)
SelectedTurnGroup(availableTurns, turnId) ==
    SelectSeq(availableTurns, LAMBDA group : group.turn = turnId)

\* if (result.success) for (const op of turnOps) markAsUndone(op.id): the ids
\* marked in the session tracker, in order
MarkedAsUndone(success, turnOps, resolved, results) ==
    IF success THEN turnOps ELSE << >>

\* `ccundo undo-turn <turn-id> --yes` over the parsed session `operations`,
\* up to the batch loop of undoTurnWithCascading: a new TurnUndoManager is
\* initialized from the document, the group of the turn is looked up and the
\* cascade resolved.  last.ids holds turnOps while the batch runs.
UndoTurnCommand(turnId, operations) ==
    /\ Idle
    /\ calls' = calls + 1
    /\ delegateCalls' = << >>
    /\ delegateOutcomes' = << >>
    /\ LET loaded == LoadTurns(Store(<< >>, << >>), DocumentOnDisk(persisted))
           availableTurns == GetTurnsForUndoSelection(loaded, operations)
           selectedTurnGroup == SelectedTurnGroup(availableTurns, turnId)
           ended(code) == [Call("undo-turn") EXCEPT
                              !.turnId = turnId, !.ops = operations,
                              !.code = code, !.success = FALSE]
       IN  /\ turns' = loaded.turns
           /\ operationToTurn' = loaded.operationToTurn
           /\ before' = [turns |-> loaded.turns,
                         operationToTurn |-> loaded.operationToTurn,
                         persisted |-> persisted]
           /\ IF Len(availableTurns) = 0
              THEN last' = ended("Nothing") /\ UNCHANGED <<pc, batch>>
              ELSE IF selectedTurnGroup = << >>
              THEN last' = ended("NotFound") /\ UNCHANGED <<pc, batch>>
              ELSE LET cascade == ResolveCascade(loaded.turns, turnId, operations)
                   IN  IF Len(cascade.operations) = 0
                       THEN last' = ended("Empty") /\ UNCHANGED <<pc, batch>>
                       ELSE /\ pc' = "undo"
                            /\ batch' = [turnId |-> turnId, allOps |-> operations,
                                         ops |-> cascade.operations,
                                         results |-> << >>]
                            /\ last' = [Call("undo-turn") EXCEPT
                                           !.turnId = turnId, !.ops = operations,
                                           !.ret = cascade.turns,
                                           !.ids = Head(selectedTurnGroup).operations,
                                           !.code = "running"]
    /\ UNCHANGED <<persisted, nextTurnId, now>>

\* The command after the batch loop: undoTurnWithCascading detaches the
\* successes, saves and returns, and the command marks operations as undone.
\* last.ids holds the ids marked.
UndoTurnCommandReturn ==
    /\ pc = "undo"
    /\ last.op = "undo-turn"
    /\ BatchDone(batch)
    /\ LET successCount == CountSuccess(batch.results)
           failCount == CountFail(batch.results)
           st == IF successCount > 0
                 THEN RemoveOperationsIn(Store(turns, operationToTurn),
                          SuccessfulOpIds(batch.ops, batch.results, 1))
                 ELSE Store(turns, operationToTurn)
       IN  /\ turns' = st.turns
           /\ operationToTurn' = st.operationToTurn
           /\ persisted' = IF successCount > 0 THEN SavedDocument(st.turns)
                           ELSE persisted
           /\ last' = [Call("undo-turn") EXCEPT
                          !.turnId = batch.turnId, !.ops = batch.allOps,
                          !.ret = last.ret,
                          !.success = successCount > 0,
                          !.resolved = batch.ops, !.results = batch.results,
                          !.successCount = successCount,
                          !.failCount = failCount,
                          !.ids = MarkedAsUndone(successCount > 0, last.ids,
                                                 batch.ops, batch.results)]
    /\ pc' = "idle"
    /\ batch' = NoBatch
    /\ UNCHANGED <<nextTurnId, now, delegateCalls, delegateOutcomes, before,
                   calls>>

NextUndoTurnCommand ==
    \/ \E minutes \in GapOptions, operations \in OpLists :
           GroupTurnsCommand(FALSE, minutes, operations)
    \/ \E t \in TurnIds, operations \in OpLists : UndoTurnCommand(t, operations)
    \/ \E outcome \in DelegateOutcomes : UndoOperation(outcome)
    \/ UndoTurnCommandReturn

\* Runs of group-turns and undo-turn, one process after the other
SpecUndoTurnCommand == Init /\ [][NextUndoTurnCommand]_vars

UndoTurnCommandRanBatch == last.op = "undo-turn" /\ last.code = "ok"

\* C38: after the undo-turn command has run a batch, the set of operation
\* ids it marked as undone in the session tracker equals the set of
\* operations whose undo succeeded in that batch.
C38_MarkedExactlySucceeded ==
    UndoTurnCommandRanBatch =>
        Range(last.ids)
            = {last.resolved[i] : i \in {k \in 1..Len(last.resolved) :
                                            last.results[k].success}}


(***************************************************************************)
(* The undo command (bin/ccundo.js)                                        *)
(***************************************************************************)

\* The operations a session file parses to, earliest first
SessionLists == {<< >>, SubSeq(Session, 1, 2), Session}

\* operations.findIndex(op => op.id === operationId), from 1; 0 for -1
FindIndex(operations, operationId) ==
    IF Includes(operations, operationId)
    THEN CHOOSE i \in 1..Len(operations) :
             /\ operations[i] = operationId
             /\ \A j \in 1..(i - 1) : operations[j] # operationId
    ELSE 0

\* operations.reverse(); operations.slice(0, selectedIndex + 1)
OperationsToUndo(operations, operationId) ==
    LET reversed == Reverse(operations)
    IN  SubSeq(reversed, 1, FindIndex(reversed, operationId))

UndoCommands == {"undo", "undo --local"}

\* `ccundo undo <operation-id> --yes [--local]` over the operations of the
\* session, up to the batch loop.  last.ret holds the selected operation id
\* and last.ids the ids marked as undone in the session tracker.
UndoCommand(operationId, operations, local) ==
    /\ Idle
    /\ calls' = calls + 1
    /\ before' = Snapshot
    /\ delegateCalls' = << >>
    /\ delegateOutcomes' = << >>
    /\ LET name == IF local THEN "undo --local" ELSE "undo"
           ended(code) == [Call(name) EXCEPT
                              !.ops = operations, !.ret = <<operationId>>,
                              !.code = code, !.success = FALSE]
       IN  IF Len(operations) = 0
           THEN last' = ended("Nothing") /\ UNCHANGED <<pc, batch>>
           ELSE IF FindIndex(Reverse(operations), operationId) = 0
           THEN last' = ended("NotFound") /\ UNCHANGED <<pc, batch>>
           ELSE /\ pc' = "undo command"
                /\ batch' = [turnId |-> Null, allOps |-> operations,
                             ops |-> OperationsToUndo(operations, operationId),
                             results |-> << >>]
                /\ last' = [Call(name) EXCEPT
                               !.ops = operations, !.ret = <<operationId>>,
                               !.code = "running"]
    /\ UNCHANGED <<turns, operationToTurn, persisted, nextTurnId, now>>

\* One iteration of the loop of the undo command:
\* const result = await undoManager.undo(operation), outside any try block of
\* the loop, and markAsUndone when result.success and a session file is used.
\* A throw leaves the loop for the catch of the command, which prints it.
UndoCommandOperation(outcome) ==
    /\ pc = "undo command"
    /\ ~BatchDone(batch)
    /\ LET operation == batch.ops[Len(batch.results) + 1]
       IN  /\ delegateCalls' = Append(delegateCalls, operation)
           /\ delegateOutcomes' = Append(delegateOutcomes, outcome)
           /\ IF outcome = "throw"
              THEN /\ pc' = "idle"
                   /\ batch' = NoBatch
                   /\ last' = [last EXCEPT
                                  !.code = "thrown", !.success = FALSE,
                                  !.resolved = batch.ops,
                                  !.results = batch.results]
              ELSE /\ pc' = pc
                   /\ batch' = [batch EXCEPT
                                   !.results = Append(@, ResultOf(outcome))]
                   /\ last' = [last EXCEPT
                                  !.ids = IF outcome = "success"
                                             /\ last.op = "undo"
                                          THEN Append(@, operation)
                                          ELSE @]
    /\ UNCHANGED <<turns, operationToTurn, persisted, nextTurnId, now, before,
                   calls>>

\* The undo command after the loop: the counts are printed
UndoCommandReturn ==
    /\ pc = "undo command"
    /\ BatchDone(batch)
    /\ last' = [last EXCEPT
                   !.code = "ok",
                   !.success = CountSuccess(batch.results) > 0,
                   !.resolved = batch.ops, !.results = batch.results,
                   !.successCount = CountSuccess(batch.results),
                   !.failCount = CountFail(batch.results)]
    /\ pc' = "idle"
    /\ batch' = NoBatch
    /\ UNCHANGED <<turns, operationToTurn, persisted, nextTurnId, now,
                   delegateCalls, delegateOutcomes, before, calls>>

NextUndoCommand ==
    \/ \E o \in OpIds, operations \in SessionLists, local \in BOOLEAN :
           UndoCommand(o, operations, local)
    \/ \E outcome \in DelegateOutcomes : UndoCommandOperation(outcome)
    \/ UndoCommandReturn

\* Runs of the undo command, one process after the other
SpecUndoCommand == Init /\ [][NextUndoCommand]_vars

\* The undo command has ended after it selected operations
UndoCommandEnded ==
    /\ pc = "idle"
    /\ last.op \in UndoCommands
    /\ last.code \in {"ok", "thrown"}

\* The selected operation and the operations after it in the session, most
\* recent first
SelectedAndAfter ==
    LET i == FindIndex(last.ops, last.ret[1])
    IN  Reverse(SubSeq(last.ops, i, Len(last.ops)))

\* C39: `ccundo undo` with a selected operation hands to the undo delegate
\* exactly that operation and all operations after it in the session, most
\* recent first, whatever the outcome of each (a failing operation does not
\* keep the others from being attempted), and marks an operation as undone
\* iff its own undo returned success.
C39_UndoCommandBatch ==
    UndoCommandEnded =>
        /\ delegateCalls = SelectedAndAfter
        /\ Range(last.ids)
               = {delegateCalls[i] : i \in {k \in 1..Len(delegateCalls) :
                                               delegateOutcomes[k] = "success"}}

====
